---- MODULE Spec2Model ----
(***************************************************************************)
(* Strawberry collection core: the songs table and its reconciler          *)
(* (CollectionBackend), the compilation classifier and the grouping index  *)
(* (CollectionModel).  QStrings are TLA+ strings (\o, Len, SubSeq), a      *)
(* SongList is a sequence of Song records, the songs table is a function   *)
(* from ROWID to row.                                                      *)
(***************************************************************************)
EXTENDS Integers, Sequences, FiniteSets, TLC

VARIABLES
  store,        \* songs table: ROWID -> row
  dirs,         \* directories table: the set of ROWIDs present
  dirs_table_,  \* CollectionBackend::dirs_table_ is non-empty
  call,         \* what the last backend call did (statements, signals)
  mutex,        \* the thread that holds db_->Mutex(), or NoThread
  threads,      \* thread -> the backend function it is in, and how far
  posted,       \* methods queued to the backend's thread, oldest first
  group_by_,        \* CollectionModel::group_by_[3]
  query_options_,   \* CollectionModel::query_options_: filter_, max_age_
  show_dividers_,   \* CollectionModel::show_dividers_
  items,            \* the tree's root and containers: item -> CollectionItem
  container_nodes_, \* container_nodes_[3]: key -> item, per level
  song_nodes_,      \* song id -> its leaf
  divider_nodes_,   \* divider key -> its divider
  inbox,            \* signals queued to the model's thread, oldest first
  now               \* QDateTime::currentDateTime().toSecsSinceEpoch()

backendVars == <<store, dirs, dirs_table_, call, mutex, threads, posted>>

configVars == <<group_by_, query_options_, show_dividers_>>

treeVars == <<items, container_nodes_, song_nodes_, divider_nodes_>>

modelVars == <<group_by_, query_options_, show_dividers_, items,
               container_nodes_, song_nodes_, divider_nodes_, inbox, now>>

vars == <<store, dirs, dirs_table_, call, mutex, threads, posted, group_by_, query_options_,
          show_dividers_, items, container_nodes_, song_nodes_,
          divider_nodes_, inbox, now>>

----------------------------------------------------------------------------
(* Bounds *)

MaxRows == 2      \* the largest ROWID the songs table may hand out
MaxBatch == 2     \* candidates per reconcile call

----------------------------------------------------------------------------
(* Song: the fields of a Track Record the core reads *)

Range(f) == {f[x] : x \in DOMAIN f}

RECURSIVE SeqFromSet(_)
SeqFromSet(S) ==
  IF S = {} THEN <<>>
  ELSE LET x == CHOOSE y \in S : \A z \in S : y <= z
       IN <<x>> \o SeqFromSet(S \ {x})

Url(dir, file) == [dir |-> dir, file |-> file]

NewSong(id, song_id, directory_id, url, artist, albumartist, album, title) ==
  [id |-> id, song_id |-> song_id, directory_id |-> directory_id, url |-> url,
   artist |-> artist, albumartist |-> albumartist, album |-> album,
   album_id |-> "", title |-> title, disc |-> 0, year |-> -1,
   compilation |-> FALSE, compilation_detected |-> FALSE,
   compilation_on |-> FALSE, compilation_off |-> FALSE,
   unavailable |-> FALSE, ctime |-> 1, playcount |-> 0, lastplayed |-> -1,
   samplerate |-> -1, bitdepth |-> -1, bitrate |-> -1, rating |-> -1]

InvalidSong == [NewSong(-1, "", -1, Url("", ""), "", "", "", "") EXCEPT !.ctime = -1]

is_valid(song) == song # InvalidSong

\* Song::is_compilation
is_compilation(song) ==
  (song.compilation \/ song.compilation_detected \/ song.compilation_on)
  /\ ~song.compilation_off

\* Song::effective_albumartist
effective_albumartist(song) ==
  IF song.albumartist = "" THEN song.artist ELSE song.albumartist

\* Song::IsMetadataEqual: the tag fields, not the id and not the statistics
IsMetadataEqual(a, b) ==
  /\ a.title = b.title
  /\ a.album = b.album
  /\ a.artist = b.artist
  /\ a.albumartist = b.albumartist
  /\ a.disc = b.disc
  /\ a.year = b.year
  /\ a.compilation = b.compilation

\* Song::BindToQuery: the column values a Song writes, with the two derived
\* columns effective_albumartist and compilation_effective
BindToQuery(song) ==
  [id |-> song.id, song_id |-> song.song_id, directory_id |-> song.directory_id,
   url |-> song.url, artist |-> song.artist, albumartist |-> song.albumartist,
   album |-> song.album, album_id |-> song.album_id, title |-> song.title,
   disc |-> song.disc, year |-> song.year, compilation |-> song.compilation,
   compilation_detected |-> song.compilation_detected,
   compilation_on |-> song.compilation_on,
   compilation_off |-> song.compilation_off,
   unavailable |-> song.unavailable, ctime |-> song.ctime,
   playcount |-> song.playcount, lastplayed |-> song.lastplayed,
   samplerate |-> song.samplerate, bitdepth |-> song.bitdepth,
   bitrate |-> song.bitrate, rating |-> song.rating,
   effective_albumartist |-> effective_albumartist(song),
   compilation_effective |-> is_compilation(song)]

\* Song::InitFromQuery: a row read back as a Song
InitFromQuery(row) ==
  [id |-> row.id, song_id |-> row.song_id, directory_id |-> row.directory_id,
   url |-> row.url, artist |-> row.artist, albumartist |-> row.albumartist,
   album |-> row.album, album_id |-> row.album_id, title |-> row.title,
   disc |-> row.disc, year |-> row.year, compilation |-> row.compilation,
   compilation_detected |-> row.compilation_detected,
   compilation_on |-> row.compilation_on,
   compilation_off |-> row.compilation_off,
   unavailable |-> row.unavailable, ctime |-> row.ctime,
   playcount |-> row.playcount, lastplayed |-> row.lastplayed,
   samplerate |-> row.samplerate, bitdepth |-> row.bitdepth,
   bitrate |-> row.bitrate, rating |-> row.rating]

set_id(song, id) == [song EXCEPT !.id = id]

----------------------------------------------------------------------------
(* QString operations the model uses *)

\* the letters, with one that carries a diacritic
UpperCase == "ABCDEFGHIJKLMNOPQRSTUVWXYZÉ"
LowerCase == "abcdefghijklmnopqrstuvwxyzé"
\* QChar::isDigit: the category Number_DecimalDigit
Digits == "0123456789"
\* numbers of the category Number_Other: \w matches them (\p{N}), isDigit
\* does not
OtherNumbers == "½²"

CharAt(text, i) == SubSeq(text, i, i)

IndexIn(alphabet, c) ==
  IF \E i \in 1..Len(alphabet) : CharAt(alphabet, i) = c
  THEN CHOOSE i \in 1..Len(alphabet) : CharAt(alphabet, i) = c
  ELSE 0

MapChars(text, from, to) ==
  LET Mapped[i \in 0..Len(text)] ==
        IF i = 0 THEN ""
        ELSE Mapped[i - 1] \o (IF IndexIn(from, CharAt(text, i)) # 0
                               THEN CharAt(to, IndexIn(from, CharAt(text, i)))
                               ELSE CharAt(text, i))
  IN Mapped[Len(text)]

toLower(text) == MapChars(text, UpperCase, LowerCase)

toUpper(text) == MapChars(text, LowerCase, UpperCase)

----------------------------------------------------------------------------
(* The songs table *)

\* INSERT INTO songs: SQLite gives the row the largest ROWID plus one
lastInsertId(tbl) ==
  IF DOMAIN tbl = {} THEN 1
  ELSE (CHOOSE m \in DOMAIN tbl : \A i \in DOMAIN tbl : i <= m) + 1

InsertRow(tbl, song) ==
  LET id == lastInsertId(tbl)
  IN [i \in DOMAIN tbl \cup {id} |->
        IF i = id THEN [BindToQuery(song) EXCEPT !.id = id] ELSE tbl[i]]

\* UPDATE songs SET <kUpdateSpec> WHERE ROWID = :id
UpdateRow(tbl, id, song) ==
  [i \in DOMAIN tbl |->
     IF i = id THEN [BindToQuery(song) EXCEPT !.id = id] ELSE tbl[i]]

\* DELETE FROM songs WHERE ROWID = :id
DeleteRow(tbl, id) == [i \in DOMAIN tbl \ {id} |-> tbl[i]]

\* CollectionBackend::GetSongsById(ids, db), for one id
GetSongById(tbl, id) ==
  IF id \in DOMAIN tbl THEN InitFromQuery(tbl[id]) ELSE InvalidSong

\* a lookup by song_id that finds no row
GetSongBySongIdNotFound(tbl, song_id) == InvalidSong

\* CollectionBackend::GetSongBySongId(song_id, db): the first row of
\* SELECT ... WHERE SONG_ID IN ('song_id'), rows come in ROWID order
GetSongBySongId(tbl, song_id) ==
  LET hits == {i \in DOMAIN tbl : tbl[i].song_id = song_id}
  IN IF hits = {} THEN InvalidSong
     ELSE InitFromQuery(tbl[CHOOSE i \in hits : \A j \in hits : i <= j])

----------------------------------------------------------------------------
(* One call's transaction: the table as the statements so far left it, the *)
(* statements executed, the two lists, and whether the call returned early *)

Begin(tbl) ==
  [store |-> tbl, sql |-> <<>>, added |-> <<>>, deleted |-> <<>>,
   returned |-> FALSE]

\* SqlQuery::Exec of one statement on the row with that ROWID (0: the rows are
\* not selected by ROWID)
Exec(t, kind, table, id) == [t EXCEPT !.sql = Append(@, <<kind, table, id>>)]

\* the statement just executed is the one that fails
Failed(t, failAt) == Len(t.sql) = failAt

\* db_->ReportErrors(q); return;
Return(t) == [t EXCEPT !.returned = TRUE]

\* ScopedTransaction: Commit() keeps the writes, the destructor of a
\* transaction that was not committed rolls them back
ScopedTransaction(before, t) == IF t.returned THEN before ELSE t.store

Signal(name, songs) == [signal |-> name, songs |-> songs]

\* if (!deleted_songs.isEmpty()) emit SongsDeleted(deleted_songs);
\* if (!added_songs.isEmpty()) emit SongsDiscovered(added_songs);
EmitDelta(t) ==
  IF t.returned THEN <<>>
  ELSE (IF t.deleted = <<>> THEN <<>> ELSE <<Signal("SongsDeleted", t.deleted)>>)
       \o (IF t.added = <<>> THEN <<>> ELSE <<Signal("SongsDiscovered", t.added)>>)

----------------------------------------------------------------------------
(* CollectionBackend::AddOrUpdateSongs *)

\* the loop body with the two lookups in the other order: the external
\* song_id is tried before the internal id
AddOrUpdateSongBySongIdFirst(t, song, failAt) ==
  LET t1 == IF dirs_table_ THEN Exec(t, "SELECT", "dirs", song.directory_id) ELSE t
      by_song_id == song.song_id # ""
      t2 == IF by_song_id THEN Exec(t1, "SELECT", "songs", 0) ELSE t1
      found == IF ~by_song_id \/ Failed(t2, failAt) THEN InvalidSong
               ELSE GetSongBySongId(t2.store, song.song_id)
  IN
  IF dirs_table_ /\ Failed(t1, failAt) THEN Return(t1)
  ELSE IF dirs_table_ /\ song.directory_id \notin dirs THEN t1
  ELSE IF is_valid(found) THEN
    LET new_song == set_id(song, found.id)
        t3 == Exec(t2, "UPDATE", "songs", new_song.id)
    IN IF Failed(t3, failAt) THEN Return(t3)
       ELSE [t3 EXCEPT !.store = UpdateRow(@, new_song.id, new_song),
                       !.deleted = Append(@, found),
                       !.added = Append(@, new_song)]
  ELSE IF song.id # -1 THEN
    LET t3 == Exec(t2, "SELECT", "songs", song.id)
        old_song == IF Failed(t3, failAt) THEN InvalidSong
                    ELSE GetSongById(t3.store, song.id)
        t4 == Exec(t3, "UPDATE", "songs", song.id)
    IN IF ~is_valid(old_song) THEN t3
       ELSE IF Failed(t4, failAt) THEN Return(t4)
       ELSE [t4 EXCEPT !.store = UpdateRow(@, song.id, song),
                       !.deleted = Append(@, old_song),
                       !.added = Append(@, song)]
  ELSE
    LET id == lastInsertId(t2.store)
        t3 == Exec(t2, "INSERT", "songs", id)
    IN IF Failed(t3, failAt) THEN Return(t3)
       ELSE [t3 EXCEPT !.store = InsertRow(@, song),
                       !.added = Append(@, set_id(song, id))]

\* the body of the loop without if (!old_song.is_valid()) continue: a
\* candidate whose id has no row is updated and announced like one that has
AddOrUpdateSongNoRow(t, song, failAt) ==
  LET t1 == IF dirs_table_ THEN Exec(t, "SELECT", "dirs", song.directory_id) ELSE t
  IN
  IF dirs_table_ /\ Failed(t1, failAt) THEN Return(t1)
  ELSE IF dirs_table_ /\ song.directory_id \notin dirs THEN t1
  ELSE IF song.id # -1 THEN
    LET t2 == Exec(t1, "SELECT", "songs", song.id)
        old_song == IF Failed(t2, failAt) THEN InvalidSong
                    ELSE GetSongById(t2.store, song.id)
        t3 == Exec(t2, "UPDATE", "songs", song.id)
        t4 == Exec([t3 EXCEPT !.store = UpdateRow(@, song.id, song)],
                   "UPDATE", "fts", song.id)
    IN IF Failed(t3, failAt) THEN Return(t3)
       ELSE IF Failed(t4, failAt) THEN Return(t4)
       ELSE [t4 EXCEPT !.deleted = Append(@, old_song),
                       !.added = Append(@, song)]
  ELSE
    LET by_song_id == song.song_id # ""
        t2 == IF by_song_id THEN Exec(t1, "SELECT", "songs", 0) ELSE t1
        old_song == IF ~by_song_id \/ Failed(t2, failAt) THEN InvalidSong
                    ELSE GetSongBySongId(t2.store, song.song_id)
    IN
    IF by_song_id /\ is_valid(old_song) /\ old_song.id # -1 THEN
      LET new_song == set_id(song, old_song.id)
          t3 == Exec(t2, "UPDATE", "songs", new_song.id)
      IN IF Failed(t3, failAt) THEN Return(t3)
         ELSE [t3 EXCEPT !.store = UpdateRow(@, new_song.id, new_song),
                         !.deleted = Append(@, old_song),
                         !.added = Append(@, new_song)]
    ELSE
      LET id == lastInsertId(t2.store)
          t3 == Exec(t2, "INSERT", "songs", id)
      IN IF Failed(t3, failAt) THEN Return(t3)
         ELSE [t3 EXCEPT !.store = InsertRow(@, song),
                         !.added = Append(@, set_id(song, id))]

\* the body of the loop over the candidates, for one candidate
AddOrUpdateSong(t, song, failAt) ==
  LET t1 == IF dirs_table_ THEN Exec(t, "SELECT", "dirs", song.directory_id) ELSE t
  IN
  IF dirs_table_ /\ Failed(t1, failAt) THEN Return(t1)
  ELSE IF dirs_table_ /\ song.directory_id \notin dirs THEN t1
  ELSE IF song.id # -1 THEN
    \* This song exists in the DB: GetSongById swallows a failed SELECT
    LET t2 == Exec(t1, "SELECT", "songs", song.id)
        old_song == IF Failed(t2, failAt) THEN InvalidSong
                    ELSE GetSongById(t2.store, song.id)
        t3 == Exec(t2, "UPDATE", "songs", song.id)
        t4 == Exec([t3 EXCEPT !.store = UpdateRow(@, song.id, song)],
                   "UPDATE", "fts", song.id)
    IN IF ~is_valid(old_song) THEN t2
       ELSE IF Failed(t3, failAt) THEN Return(t3)
       ELSE IF Failed(t4, failAt) THEN Return(t4)
       ELSE [t4 EXCEPT !.deleted = Append(@, old_song),
                       !.added = Append(@, song)]
  ELSE
    LET by_song_id == song.song_id # ""
        t2 == IF by_song_id THEN Exec(t1, "SELECT", "songs", 0) ELSE t1
        old_song == IF ~by_song_id \/ Failed(t2, failAt) THEN InvalidSong
                    ELSE GetSongBySongId(t2.store, song.song_id)
    IN
    IF by_song_id /\ is_valid(old_song) /\ old_song.id # -1 THEN
      LET new_song == set_id(song, old_song.id)
          t3 == Exec(t2, "UPDATE", "songs", new_song.id)
      IN IF Failed(t3, failAt) THEN Return(t3)
         ELSE [t3 EXCEPT !.store = UpdateRow(@, new_song.id, new_song),
                         !.deleted = Append(@, old_song),
                         !.added = Append(@, new_song)]
    ELSE
      \* Create new song
      LET id == lastInsertId(t2.store)
          t3 == Exec(t2, "INSERT", "songs", id)
      IN IF Failed(t3, failAt) THEN Return(t3)
         ELSE [t3 EXCEPT !.store = InsertRow(@, song),
                         !.added = Append(@, set_id(song, id))]

RECURSIVE AddOrUpdateLoop(_, _, _)
AddOrUpdateLoop(t, songs, failAt) ==
  IF songs = <<>> \/ t.returned THEN t
  ELSE AddOrUpdateLoop(AddOrUpdateSong(t, Head(songs), failAt), Tail(songs), failAt)

\* the three calls made by every call, one that returned early too
UpdateTotalsAsyncAlways(t) ==
  <<"UpdateTotalSongCount", "UpdateTotalArtistCount", "UpdateTotalAlbumCount">>

\* the three UpdateTotal*CountAsync calls that end a call that committed
UpdateTotalsAsync(t) ==
  IF t.returned THEN <<>>
  ELSE <<"UpdateTotalSongCount", "UpdateTotalArtistCount", "UpdateTotalAlbumCount">>

\* a completed call, as the next state records it
CompletedWith(op, arg, t, failAt, emitted, queued) ==
  [op |-> op, arg |-> arg, sql |-> t.sql,
   failed |-> failAt \in 1..Len(t.sql),
   returned |-> t.returned,
   emitted |-> emitted,
   queued |-> queued,
   repeat |-> call.op = op /\ call.arg = arg /\ ~call.returned /\ ~call.failed]

Completed(op, arg, t, failAt) ==
  CompletedWith(op, arg, t, failAt, EmitDelta(t), UpdateTotalsAsync(t))

\* any one statement of a call may be the one that fails: a call executes at
\* most four per candidate, or one, two per key and two per row deleted
MaxStmts == 1 + 2 * MaxBatch + 2 * MaxRows

\* no statement of the call touches a ROWID beyond the bound
WithinBounds(sql, rows) == \A k \in 1..Len(sql) : sql[k][3] <= rows

AddOrUpdateSongs(songs, failAt) ==
  LET t == AddOrUpdateLoop(Begin(store), songs, failAt)
  IN /\ store' = ScopedTransaction(store, t)
     /\ call' = Completed("AddOrUpdateSongs", songs, t, failAt)
     /\ UNCHANGED <<dirs, dirs_table_, mutex, threads>>

----------------------------------------------------------------------------
(* CollectionBackend::UpdateSongsBySongID *)

\* QMap<QString, Song> keeps its keys sorted: the song ids in that order
SongIdOrder == <<"", "s1", "s2">>

Keys(map) == SelectSeq(SongIdOrder, LAMBDA k : k \in DOMAIN map)

\* CollectionQuery::Exec: WHERE unavailable = 0 unless include_unavailable_
CollectionQueryRows(tbl) == {i \in DOMAIN tbl : ~tbl[i].unavailable}

\* ExecCollectionQuery(query, SongMap): songs.insert(song.song_id(), song) for
\* every row in ROWID order, a later row replacing an earlier one
ExecCollectionQueryMap(tbl) ==
  LET rows == CollectionQueryRows(tbl)
      ids == {tbl[i].song_id : i \in rows}
  IN [k \in ids |->
        LET hits == {i \in rows : tbl[i].song_id = k}
        IN InitFromQuery(tbl[CHOOSE i \in hits : \A j \in hits : j <= i])]

\* the body of the first loop: add or update one song
UpdateSongBySongID(t, new_song, old_songs, failAt) ==
  IF new_song.song_id \in DOMAIN old_songs THEN
    LET old_song == old_songs[new_song.song_id]
        t1 == Exec(t, "UPDATE", "songs", old_song.id)
        t2 == Exec([t1 EXCEPT !.store = UpdateRow(@, old_song.id, new_song)],
                   "UPDATE", "fts", old_song.id)
    IN IF IsMetadataEqual(new_song, old_song) THEN t
       ELSE IF Failed(t1, failAt) THEN Return(t1)
       ELSE IF Failed(t2, failAt) THEN Return(t2)
       ELSE [t2 EXCEPT !.deleted = Append(@, old_song),
                       !.added = Append(@, set_id(new_song, old_song.id))]
  ELSE
    LET id == lastInsertId(t.store)
        t1 == Exec(t, "INSERT", "songs", id)
        t2 == Exec([t1 EXCEPT !.store = InsertRow(@, new_song)], "INSERT", "fts", id)
    IN IF Failed(t1, failAt) THEN Return(t1)
       ELSE IF Failed(t2, failAt) THEN Return(t2)
       ELSE [t2 EXCEPT !.added = Append(@, set_id(new_song, id))]

RECURSIVE UpdateLoop(_, _, _, _, _)
UpdateLoop(t, keys, new_songs, old_songs, failAt) ==
  IF keys = <<>> \/ t.returned THEN t
  ELSE UpdateLoop(UpdateSongBySongID(t, new_songs[Head(keys)], old_songs, failAt),
                  Tail(keys), new_songs, old_songs, failAt)

\* the body of the second loop: delete one song that is not in new_songs
DeleteOldSong(t, old_song, new_songs, failAt) ==
  IF old_song.song_id \in DOMAIN new_songs THEN t
  ELSE
    LET t1 == Exec(t, "DELETE", "songs", old_song.id)
        t2 == Exec([t1 EXCEPT !.store = DeleteRow(@, old_song.id)],
                   "DELETE", "fts", old_song.id)
    IN IF Failed(t1, failAt) THEN Return(t1)
       ELSE IF Failed(t2, failAt) THEN Return(t2)
       ELSE [t2 EXCEPT !.deleted = Append(@, old_song)]

RECURSIVE DeleteLoop(_, _, _, _, _)
DeleteLoop(t, keys, new_songs, old_songs, failAt) ==
  IF keys = <<>> \/ t.returned THEN t
  ELSE DeleteLoop(DeleteOldSong(t, old_songs[Head(keys)], new_songs, failAt),
                  Tail(keys), new_songs, old_songs, failAt)

UpdateSongsBySongIDBody(tbl, new_songs, failAt) ==
  LET t0 == Exec(Begin(tbl), "SELECT", "songs", 0)
      old_songs == ExecCollectionQueryMap(tbl)
      t1 == UpdateLoop(t0, Keys(new_songs), new_songs, old_songs, failAt)
  IN IF Failed(t0, failAt) THEN Return(t0)
     ELSE DeleteLoop(t1, Keys(old_songs), new_songs, old_songs, failAt)

UpdateSongsBySongID(new_songs, failAt) ==
  LET t == UpdateSongsBySongIDBody(store, new_songs, failAt)
  IN /\ store' = ScopedTransaction(store, t)
     /\ call' = Completed("UpdateSongsBySongID", new_songs, t, failAt)
     /\ UNCHANGED <<dirs, dirs_table_, mutex, threads>>

----------------------------------------------------------------------------
(* CollectionBackend::DeleteSongs *)

\* the loop with remove.exec() and db_->CheckErrors(remove) in place of the
\* return: a statement that fails is passed over
RECURSIVE DeleteSongsLoopCheckErrors(_, _, _)
DeleteSongsLoopCheckErrors(t, songs, failAt) ==
  IF songs = <<>> THEN t
  ELSE LET t1 == Exec(t, "DELETE", "songs", Head(songs).id)
       IN IF Failed(t1, failAt)
          THEN DeleteSongsLoopCheckErrors(t1, Tail(songs), failAt)
          ELSE DeleteSongsLoopCheckErrors(
                 [t1 EXCEPT !.store = DeleteRow(@, Head(songs).id)],
                 Tail(songs), failAt)

\* DELETE FROM songs WHERE ROWID = :id for every song; the call returns at
\* the first statement that fails
RECURSIVE DeleteSongsLoop(_, _, _)
DeleteSongsLoop(t, songs, failAt) ==
  IF songs = <<>> \/ t.returned THEN t
  ELSE LET t1 == Exec(t, "DELETE", "songs", Head(songs).id)
       IN IF Failed(t1, failAt) THEN Return(t1)
          ELSE DeleteSongsLoop([t1 EXCEPT !.store = DeleteRow(@, Head(songs).id)],
                               Tail(songs), failAt)

\* emit SongsDeleted(songs);
EmitDeleted(t, songs) ==
  IF t.returned THEN <<>> ELSE <<Signal("SongsDeleted", songs)>>

\* the call with that loop: it commits what did not fail and emits
DeleteSongsCheckErrors(songs, failAt) ==
  LET t == DeleteSongsLoopCheckErrors(Begin(store), songs, failAt)
  IN /\ store' = ScopedTransaction(store, t)
     /\ call' = CompletedWith("DeleteSongs", songs, t, failAt,
                              EmitDeleted(t, songs), UpdateTotalsAsync(t))
     /\ UNCHANGED <<dirs, dirs_table_, mutex, threads>>

DeleteSongs(songs, failAt) ==
  LET t == DeleteSongsLoop(Begin(store), songs, failAt)
  IN /\ store' = ScopedTransaction(store, t)
     /\ call' = CompletedWith("DeleteSongs", songs, t, failAt,
                              EmitDeleted(t, songs), UpdateTotalsAsync(t))
     /\ UNCHANGED <<dirs, dirs_table_, mutex, threads>>

----------------------------------------------------------------------------
(* CollectionBackend::RemoveDirectory *)

SongsOfRows(tbl, rows) ==
  [n \in 1..Len(SeqFromSet(rows)) |-> InitFromQuery(tbl[SeqFromSet(rows)[n]])]

\* FindSongsInDirectory: SELECT ... WHERE directory_id = :directory_id; an
\* empty list when the statement fails
FindSongsInDirectory(t, id, failAt) ==
  IF Failed(t, failAt) THEN <<>>
  ELSE SongsOfRows(t.store, {i \in DOMAIN t.store : t.store[i].directory_id = id})

\* DeleteSongs(FindSongsInDirectory(dir.id)) in a transaction of its own,
\* then the subdirs and the directory in a second one; DirectoryDeleted is
\* emitted before that one commits
RemoveDirectory(dir, failAt) ==
  LET t0 == Exec(Begin(store), "SELECT", "songs", 0)
      songs == FindSongsInDirectory(t0, dir, failAt)
      t1 == DeleteSongsLoop(t0, songs, failAt)
      begun == [t1 EXCEPT !.store = ScopedTransaction(store, t1), !.returned = FALSE]
      t2 == Exec(begun, "DELETE", "subdirs", 0)
      t3 == Exec(t2, "DELETE", "dirs", dir)
      t == IF Failed(t2, failAt) THEN Return(t2)
           ELSE IF Failed(t3, failAt) THEN Return(t3)
           ELSE t3
  IN /\ store' = begun.store
     /\ dirs' = IF t.returned THEN dirs ELSE dirs \ {dir}
     /\ call' = CompletedWith("RemoveDirectory", dir, t, failAt,
                              EmitDeleted(t1, songs)
                                \o (IF t.returned THEN <<>>
                                    ELSE <<Signal("DirectoryDeleted", <<>>)>>),
                              UpdateTotalsAsync(t1))
     /\ UNCHANGED <<dirs_table_, mutex, threads>>

----------------------------------------------------------------------------
(* CollectionBackend::MarkSongsUnavailable *)

RECURSIVE MarkUnavailableLoop(_, _, _, _)
MarkUnavailableLoop(t, songs, unavailable, failAt) ==
  IF songs = <<>> \/ t.returned THEN t
  ELSE LET id == Head(songs).id
           t1 == Exec(t, "UPDATE", "songs", id)
       IN IF Failed(t1, failAt) THEN Return(t1)
          ELSE MarkUnavailableLoop(
                 [t1 EXCEPT !.store =
                    [i \in DOMAIN @ |->
                       IF i = id THEN [@[i] EXCEPT !.unavailable = unavailable]
                       ELSE @[i]]],
                 Tail(songs), unavailable, failAt)

\* if (unavailable) emit SongsDeleted(songs); else emit SongsDiscovered(songs);
EmitUnavailable(t, songs, unavailable) ==
  IF t.returned THEN <<>>
  ELSE IF unavailable THEN <<Signal("SongsDeleted", songs)>>
  ELSE <<Signal("SongsDiscovered", songs)>>

MarkSongsUnavailable(songs, unavailable, failAt) ==
  LET t == MarkUnavailableLoop(Begin(store), songs, unavailable, failAt)
  IN /\ store' = ScopedTransaction(store, t)
     /\ call' = CompletedWith("MarkSongsUnavailable", <<songs, unavailable>>, t,
                              failAt, EmitUnavailable(t, songs, unavailable),
                              UpdateTotalsAsync(t))
     /\ UNCHANGED <<dirs, dirs_table_, mutex, threads>>

----------------------------------------------------------------------------
(* CollectionBackend::IncrementPlayCount *)

\* UPDATE songs SET playcount = playcount + 1, lastplayed = :now WHERE
\* ROWID = :id, outside any transaction; the song is read again and
\* announced, an invalid song when the table has no such row
IncrementPlayCount(id, failAt) ==
  LET t1 == Exec(Begin(store), "UPDATE", "songs", id)
      played == [i \in DOMAIN store |->
                   IF i = id THEN [store[i] EXCEPT !.playcount = @ + 1, !.lastplayed = now]
                   ELSE store[i]]
      t2 == Exec([t1 EXCEPT !.store = played], "SELECT", "songs", id)
      new_song == IF Failed(t2, failAt) THEN InvalidSong ELSE GetSongById(played, id)
      t == IF id = -1 THEN Return(Begin(store))
           ELSE IF Failed(t1, failAt) THEN Return(t1)
           ELSE t2
  IN /\ store' = ScopedTransaction(store, t)
     /\ call' = CompletedWith("IncrementPlayCount", id, t, failAt,
                              IF t.returned THEN <<>>
                              ELSE <<Signal("SongsStatisticsChanged", <<new_song>>)>>,
                              <<>>)
     /\ UNCHANGED <<dirs, dirs_table_, mutex, threads>>

----------------------------------------------------------------------------
(* CollectionBackend::UpdateLastPlayed, UpdatePlayCount, UpdateSongsRating *)

\* COLLATE NOCASE: the 26 letters of ASCII are folded, no other character
NOCASE(text) == MapChars(text, SubSeq(UpperCase, 1, 26), SubSeq(LowerCase, 1, 26))

\* the rows in the order of their ROWID
RowsInOrder(tbl, ids) ==
  LET Upto[i \in 0..Cardinality(DOMAIN tbl) + 1] ==
        IF i = 0 THEN <<>>
        ELSE IF i \in ids THEN Append(Upto[i - 1], i) ELSE Upto[i - 1]
      last == IF DOMAIN tbl = {} THEN 0
              ELSE CHOOSE m \in DOMAIN tbl : \A i \in DOMAIN tbl : i <= m
  IN [k \in 1..Len(Upto[last]) |-> InitFromQuery(tbl[Upto[last][k]])]

\* GetSongsBy: SELECT ... WHERE artist = :artist COLLATE NOCASE AND (album =
\* :album COLLATE NOCASE AND) title = :title COLLATE NOCASE, the album left
\* out when it is empty
GetSongsBy(tbl, artist, album, title) ==
  RowsInOrder(tbl, {i \in DOMAIN tbl :
                      /\ NOCASE(tbl[i].artist) = NOCASE(artist)
                      /\ album # "" => NOCASE(tbl[i].album) = NOCASE(album)
                      /\ NOCASE(tbl[i].title) = NOCASE(title)})

\* GetSongsById(ids, db): SELECT ... WHERE ROWID IN (ids)
GetSongsById(tbl, ids) == RowsInOrder(tbl, ids \cap DOMAIN tbl)

\* the loop of UpdateLastPlayed: a song played later already is passed
\* over, and so is one whose UPDATE fails
RECURSIVE UpdateLastPlayedLoop(_, _, _, _)
UpdateLastPlayedLoop(t, songs, lastplayed, failAt) ==
  IF songs = <<>> THEN t
  ELSE IF Head(songs).lastplayed >= lastplayed
  THEN UpdateLastPlayedLoop(t, Tail(songs), lastplayed, failAt)
  ELSE LET t1 == Exec(t, "UPDATE", "songs", Head(songs).id)
       IN UpdateLastPlayedLoop(
            IF Failed(t1, failAt) THEN t1
            ELSE [t1 EXCEPT !.store[Head(songs).id].lastplayed = lastplayed],
            Tail(songs), lastplayed, failAt)

\* no transaction: every UPDATE that did not fail is kept; the songs
\* emitted are the ones GetSongsBy read
UpdateLastPlayed(artist, album, title, lastplayed, failAt) ==
  LET t0 == Exec(Begin(store), "SELECT", "songs", 0)
      songs == IF Failed(t0, failAt) THEN <<>>
               ELSE GetSongsBy(store, artist, album, title)
      t == IF songs = <<>> THEN Return(t0)
           ELSE UpdateLastPlayedLoop(t0, songs, lastplayed, failAt)
  IN /\ store' = t.store
     /\ call' = CompletedWith("UpdateLastPlayed", <<artist, album, title, lastplayed>>,
                              t, failAt,
                              IF t.returned THEN <<>>
                              ELSE <<Signal("SongsStatisticsChanged", songs)>>,
                              <<>>)
     /\ UNCHANGED <<dirs, dirs_table_, mutex, threads>>

\* the loop of UpdatePlayCount: the call returns at the UPDATE that fails
RECURSIVE UpdatePlayCountLoop(_, _, _, _)
UpdatePlayCountLoop(t, songs, playcount, failAt) ==
  IF songs = <<>> \/ t.returned THEN t
  ELSE LET t1 == Exec(t, "UPDATE", "songs", Head(songs).id)
       IN UpdatePlayCountLoop(
            IF Failed(t1, failAt) THEN Return(t1)
            ELSE [t1 EXCEPT !.store[Head(songs).id].playcount = playcount],
            Tail(songs), playcount, failAt)

UpdatePlayCount(artist, title, playcount, failAt) ==
  LET t0 == Exec(Begin(store), "SELECT", "songs", 0)
      songs == IF Failed(t0, failAt) THEN <<>>
               ELSE GetSongsBy(store, artist, "", title)
      t == IF songs = <<>> THEN Return(t0)
           ELSE UpdatePlayCountLoop(t0, songs, playcount, failAt)
  IN /\ store' = t.store
     /\ call' = CompletedWith("UpdatePlayCount", <<artist, title, playcount>>,
                              t, failAt,
                              IF t.returned THEN <<>>
                              ELSE <<Signal("SongsStatisticsChanged", songs)>>,
                              <<>>)
     /\ UNCHANGED <<dirs, dirs_table_, mutex, threads>>

\* UPDATE songs SET rating = :rating WHERE ROWID IN (ids); the songs are
\* read again and announced, none when the SELECT fails
UpdateSongsRating(id_list, rating, failAt) ==
  LET t1 == Exec(Begin(store), "UPDATE", "songs", 0)
      rated == [i \in DOMAIN store |->
                  IF i \in id_list THEN [store[i] EXCEPT !.rating = rating]
                  ELSE store[i]]
      t2 == Exec([t1 EXCEPT !.store = rated], "SELECT", "songs", 0)
      new_song_list == IF Failed(t2, failAt) THEN <<>> ELSE GetSongsById(rated, id_list)
      t == IF id_list = {} THEN Return(Begin(store))
           ELSE IF Failed(t1, failAt) THEN Return(t1)
           ELSE t2
  IN /\ store' = t.store
     /\ call' = CompletedWith("UpdateSongsRating", <<id_list, rating>>, t, failAt,
                              IF t.returned THEN <<>>
                              ELSE <<Signal("SongsRatingChanged", new_song_list)>>,
                              <<>>)
     /\ UNCHANGED <<dirs, dirs_table_, mutex, threads>>

----------------------------------------------------------------------------
(* CollectionBackend::GetAllSongs *)

\* Database::CheckErrors: the query has an error
CheckErrors(t, failAt) == Failed(t, failAt)

\* the signal GotSongs(songs, id)
GotSongs(songs, id) == [signal |-> "GotSongs", songs |-> songs, id |-> id]

\* SELECT ROWID, ... FROM songs with q.exec(); GotSongs with no song when
\* CheckErrors finds an error, and after it, with no return, the loop over
\* q.next(), which has no row when the query failed, and GotSongs with the
\* songs of the loop
GetAllSongs(id, failAt) ==
  LET t == Exec(Begin(store), "SELECT", "songs", 0)
      songs == IF Failed(t, failAt) THEN <<>> ELSE RowsInOrder(store, DOMAIN store)
  IN /\ store' = t.store
     /\ call' = CompletedWith("GetAllSongs", id, t, failAt,
                              (IF CheckErrors(t, failAt) THEN <<GotSongs(<<>>, id)>>
                               ELSE <<>>)
                              \o <<GotSongs(songs, id)>>,
                              <<>>)
     /\ UNCHANGED <<dirs, dirs_table_, mutex, threads>>

----------------------------------------------------------------------------
(* CollectionBackend::UpdateTotalSongCount, ArtistCount, AlbumCount *)

\* the signal of a counter and the value it carries
Total(name, count) == [signal |-> name, songs |-> <<>>, count |-> count]

\* SELECT COUNT(*) FROM songs WHERE unavailable = 0
TotalSongCount(tbl) == Cardinality({i \in DOMAIN tbl : ~tbl[i].unavailable})

\* SELECT COUNT(DISTINCT artist) FROM songs WHERE unavailable = 0
TotalArtistCount(tbl) ==
  Cardinality({tbl[i].artist : i \in {j \in DOMAIN tbl : ~tbl[j].unavailable}})

\* SELECT COUNT(*) FROM (SELECT DISTINCT effective_albumartist, album FROM
\* songs WHERE unavailable = 0)
TotalAlbumCount(tbl) ==
  Cardinality({<<effective_albumartist(tbl[i]), tbl[i].album>> :
                 i \in {j \in DOMAIN tbl : ~tbl[j].unavailable}})

\* one counter's method: the SELECT, and the signal with the count unless
\* the statement failed (ReportErrors and return)
UpdateTotalCount(method, name, count, failAt) ==
  LET t1 == Exec(Begin(store), "SELECT", "songs", 0)
      t == IF Failed(t1, failAt) THEN Return(t1) ELSE t1
  IN /\ store' = ScopedTransaction(store, t)
     /\ call' = CompletedWith(method, <<>>, t, failAt,
                              IF t.returned THEN <<>> ELSE <<Total(name, count)>>,
                              <<>>)
     /\ UNCHANGED <<dirs, dirs_table_, mutex, threads>>

UpdateTotalSongCount(failAt) ==
  UpdateTotalCount("UpdateTotalSongCount", "TotalSongCountUpdated",
                   TotalSongCount(store), failAt)

UpdateTotalArtistCount(failAt) ==
  UpdateTotalCount("UpdateTotalArtistCount", "TotalArtistCountUpdated",
                   TotalArtistCount(store), failAt)

UpdateTotalAlbumCount(failAt) ==
  UpdateTotalCount("UpdateTotalAlbumCount", "TotalAlbumCountUpdated",
                   TotalAlbumCount(store), failAt)

----------------------------------------------------------------------------
(* CollectionBackend::DeleteAll *)

\* DELETE FROM songs; emit DatabaseReset() when the statement did not fail
DeleteAll(failAt) ==
  LET t1 == Exec(Begin(store), "DELETE", "songs", 0)
      t == IF Failed(t1, failAt) THEN Return(t1) ELSE [t1 EXCEPT !.store = <<>>]
  IN /\ store' = ScopedTransaction(store, t)
     /\ call' = CompletedWith("DeleteAll", <<>>, t, failAt,
                              IF t.returned THEN <<>> ELSE <<Signal("DatabaseReset", <<>>)>>,
                              <<>>)
     /\ UNCHANGED <<dirs, dirs_table_, mutex, threads>>

----------------------------------------------------------------------------
(* The compilation classifier: CompilationsNeedUpdating, UpdateCompilations *)
(* and the manual override ForceCompilation                                 *)

\* QUrl::toString(QUrl::PreferLocalFile | QUrl::RemoveFilename)
Directory(url) == url.dir

\* ORDER BY album: the albums in the order SQLite compares them
AlbumOrder == <<"", "X", "x/X">>

\* QMap<QString, CompilationInfo> keeps its keys sorted: the strings
\* directory + album in that order
CompilationKeyOrder ==
  <<"/m/X", "/m/x/X", "/m/x/x/X">>

RECURSIVE Flatten(_)
Flatten(seqs) == IF seqs = <<>> THEN <<>> ELSE Head(seqs) \o Flatten(Tail(seqs))

\* SELECT ... FROM songs WHERE unavailable = 0 ORDER BY album: the ROWIDs
RowsByAlbum(tbl) ==
  Flatten([a \in 1..Len(AlbumOrder) |->
             SeqFromSet({i \in DOMAIN tbl : ~tbl[i].unavailable
                                            /\ tbl[i].album = AlbumOrder[a]})])

\* compilation_info with info.artists.contains(artist, Qt::CaseInsensitive)
CompilationInfoCaseFolded(tbl, key) ==
  LET members == SelectSeq(RowsByAlbum(tbl),
                   LAMBDA i : tbl[i].album # ""
                              /\ Directory(tbl[i].url) \o tbl[i].album = key)
      at == 1..Len(members)
  IN [urls |-> [n \in at |-> tbl[members[n]].url],
      artists |-> {toLower(tbl[members[n]].effective_albumartist) : n \in at},
      has_compilation_detected |->
        Cardinality({n \in at : tbl[members[n]].compilation_detected}),
      has_not_compilation_detected |->
        Cardinality({n \in at : ~tbl[members[n]].compilation_detected})]

\* compilation_info[directory + album] as the while loop leaves it
CompilationInfo(tbl, key) ==
  LET members == SelectSeq(RowsByAlbum(tbl),
                   LAMBDA i : tbl[i].album # ""
                              /\ Directory(tbl[i].url) \o tbl[i].album = key)
      at == 1..Len(members)
  IN [urls |-> [n \in at |-> tbl[members[n]].url],
      artists |-> {tbl[members[n]].effective_albumartist : n \in at},
      has_compilation_detected |->
        Cardinality({n \in at : tbl[members[n]].compilation_detected}),
      has_not_compilation_detected |->
        Cardinality({n \in at : ~tbl[members[n]].compilation_detected})]

\* the rows UpdateCompilations selects and updates:
\* WHERE (url = :url1 OR ...) AND unavailable = 0
RowsOfUrl(tbl, url) == {i \in DOMAIN tbl : tbl[i].url = url /\ ~tbl[i].unavailable}

\* the UPDATE without its second assignment: compilation_effective is left
\* as it was
SetCompilationDetectedOnly(row, compilation_detected) ==
  [row EXCEPT !.compilation_detected = compilation_detected]

\* UPDATE songs SET compilation_detected = :compilation_detected,
\* compilation_effective = ((compilation OR :compilation_detected OR
\* compilation_on) AND NOT compilation_off) + 0
SetCompilationDetected(row, compilation_detected) ==
  [row EXCEPT !.compilation_detected = compilation_detected,
              !.compilation_effective =
                 (row.compilation \/ compilation_detected \/ row.compilation_on)
                 /\ ~row.compilation_off]

UpdateCompilations(t, url, compilation_detected, failAt) ==
  LET t1 == Exec(t, "SELECT", "songs", 0)
      hits == SeqFromSet(RowsOfUrl(t.store, url))
      songs == [n \in 1..Len(hits) |-> InitFromQuery(t.store[hits[n]])]
      t2 == [t1 EXCEPT
               !.deleted = @ \o songs,
               !.added = @ \o [n \in 1..Len(hits) |->
                    [songs[n] EXCEPT !.compilation_detected = compilation_detected]]]
      t3 == Exec(t2, "UPDATE", "songs", 0)
  IN IF Failed(t1, failAt) THEN t1
     ELSE IF Failed(t3, failAt) THEN t3
     ELSE [t3 EXCEPT !.store =
             [i \in DOMAIN t.store |->
                IF i \in RowsOfUrl(t.store, url)
                THEN SetCompilationDetected(t.store[i], compilation_detected)
                ELSE t.store[i]]]

\* the body of the loop over info.urls, for one url of one group
MarkCompilation(t, info, url, failAt) ==
  IF Cardinality(info.artists) > 1 THEN
    (IF info.has_not_compilation_detected > 0
     THEN UpdateCompilations(t, url, TRUE, failAt) ELSE t)
  ELSE
    (IF info.has_compilation_detected > 0
     THEN UpdateCompilations(t, url, FALSE, failAt) ELSE t)

RECURSIVE MarkUrls(_, _, _, _)
MarkUrls(t, info, urls, failAt) ==
  IF urls = <<>> THEN t
  ELSE MarkUrls(MarkCompilation(t, info, Head(urls), failAt), info, Tail(urls), failAt)

RECURSIVE MarkGroups(_, _, _, _)
MarkGroups(t, tbl, keys, failAt) ==
  IF keys = <<>> THEN t
  ELSE LET info == CompilationInfo(tbl, Head(keys))
       IN MarkGroups(MarkUrls(t, info, info.urls, failAt), tbl, Tail(keys), failAt)

\* if (!deleted_songs.isEmpty()) { emit SongsDeleted; emit SongsDiscovered; }
EmitCompilations(t) ==
  IF t.returned \/ t.deleted = <<>> THEN <<>>
  ELSE <<Signal("SongsDeleted", t.deleted), Signal("SongsDiscovered", t.added)>>

CompilationsNeedUpdatingBody(tbl, failAt) ==
  LET t0 == Exec(Begin(tbl), "SELECT", "songs", 0)
      keys == SelectSeq(CompilationKeyOrder,
                        LAMBDA k : CompilationInfo(tbl, k).urls # <<>>)
  IN IF Failed(t0, failAt) THEN Return(t0)
     ELSE MarkGroups(t0, tbl, keys, failAt)

CompilationsNeedUpdating(failAt) ==
  LET t == CompilationsNeedUpdatingBody(store, failAt)
  IN /\ store' = ScopedTransaction(store, t)
     /\ call' = CompletedWith("CompilationsNeedUpdating", <<>>, t, failAt,
                              EmitCompilations(t), <<>>)
     /\ UNCHANGED <<dirs, dirs_table_, mutex, threads>>

\* the rows ForceCompilation reads and writes for one artist:
\* album = :album AND unavailable = 0 [AND artist = :artist]
RowsOfAlbum(tbl, album, artist) ==
  {i \in DOMAIN tbl : /\ tbl[i].album = album
                      /\ ~tbl[i].unavailable
                      /\ (artist # "" => tbl[i].artist = artist)}

\* UPDATE songs SET compilation_on = :compilation_on, compilation_off =
\* :compilation_off, compilation_effective = ((compilation OR
\* compilation_detected OR :compilation_on) AND NOT :compilation_off) + 0
SetCompilationForced(row, on) ==
  [row EXCEPT !.compilation_on = on,
              !.compilation_off = ~on,
              !.compilation_effective =
                 (row.compilation \/ row.compilation_detected \/ on) /\ ~(~on)]

\* the body of the loop over the artists, for one artist
ForceCompilationOf(t, album, artist, on, failAt) ==
  LET rows == RowsOfAlbum(t.store, album, artist)
      t1 == [Exec(t, "SELECT", "songs", 0) EXCEPT
               !.deleted = @ \o SongsOfRows(t.store, rows)]
      t2 == [Exec(t1, "UPDATE", "songs", 0) EXCEPT
               !.store = [i \in DOMAIN t.store |->
                            IF i \in rows THEN SetCompilationForced(t.store[i], on)
                            ELSE t.store[i]]]
      t3 == Exec(t2, "SELECT", "songs", 0)
  IN IF Failed(Exec(t, "SELECT", "songs", 0), failAt)
       THEN Return(Exec(t, "SELECT", "songs", 0))
     ELSE IF Failed(Exec(t1, "UPDATE", "songs", 0), failAt)
       THEN Return(Exec(t1, "UPDATE", "songs", 0))
     ELSE IF Failed(t3, failAt) THEN Return(t3)
     ELSE [t3 EXCEPT !.added = @ \o SongsOfRows(t2.store, rows)]

RECURSIVE ForceCompilationLoop(_, _, _, _, _)
ForceCompilationLoop(t, album, artists, on, failAt) ==
  IF artists = <<>> \/ t.returned THEN t
  ELSE ForceCompilationLoop(ForceCompilationOf(t, album, Head(artists), on, failAt),
                            album, Tail(artists), on, failAt)

\* if (!added_songs.isEmpty() || !deleted_songs.isEmpty()) emit both
EmitForced(t) ==
  IF t.returned \/ (t.added = <<>> /\ t.deleted = <<>>) THEN <<>>
  ELSE <<Signal("SongsDeleted", t.deleted), Signal("SongsDiscovered", t.added)>>

\* no transaction: every UPDATE that ran stays
ForceCompilation(album, artists, on, failAt) ==
  LET t == ForceCompilationLoop(Begin(store), album, artists, on, failAt)
  IN /\ store' = t.store
     /\ call' = CompletedWith("ForceCompilation", <<album, artists, on>>, t,
                              failAt, EmitForced(t), <<>>)
     /\ UNCHANGED <<dirs, dirs_table_, mutex, threads>>

----------------------------------------------------------------------------
(* QString operations of the model of the index *)

\* QString::contains(filter, Qt::CaseInsensitive)
contains(text, filter) ==
  \E i \in 1..(Len(text) - Len(filter) + 1) :
    toLower(SubSeq(text, i, i + Len(filter) - 1)) = toLower(filter)

startsWith(text, prefix) ==
  Len(prefix) <= Len(text) /\ SubSeq(text, 1, Len(prefix)) = prefix

\* text.remove(QRegularExpression("[^\\w ]")): letters, digits, '_' and ' ' stay
RemoveNonWord(text) ==
  LET Kept[i \in 0..Len(text)] ==
        IF i = 0 THEN ""
        ELSE Kept[i - 1] \o
             (IF \/ IndexIn(UpperCase \o LowerCase \o Digits \o OtherNumbers \o "_ ",
                             CharAt(text, i)) # 0
              THEN CharAt(text, i) ELSE "")
  IN Kept[Len(text)]

\* QString::number(n)
RECURSIVE NumberText(_)
NumberText(n) ==
  IF n < 0 THEN "-" \o NumberText(-n)
  ELSE IF n < 10 THEN CharAt(Digits, n + 1)
  ELSE NumberText(n \div 10) \o CharAt(Digits, (n % 10) + 1)

\* QString::trimmed, for the blanks a sort text carries
RECURSIVE trimmed(_)
trimmed(text) ==
  IF text = "" THEN text
  ELSE IF CharAt(text, 1) = " " THEN trimmed(SubSeq(text, 2, Len(text)))
  ELSE IF CharAt(text, Len(text)) = " " THEN trimmed(SubSeq(text, 1, Len(text) - 1))
  ELSE text

\* QString::toInt: blanks around the number are skipped, a text that is not
\* a number gives 0
toInt(text) ==
  LET number == trimmed(text)
      negative == number # "" /\ CharAt(number, 1) = "-"
      digits == IF negative THEN SubSeq(number, 2, Len(number)) ELSE number
      Value[i \in 0..Len(digits)] ==
        IF i = 0 THEN 0
        ELSE 10 * Value[i - 1] + (IndexIn(Digits, CharAt(digits, i)) - 1)
  IN IF digits = "" \/ \E i \in 1..Len(digits) : IndexIn(Digits, CharAt(digits, i)) = 0
     THEN 0
     ELSE IF negative THEN -Value[Len(digits)] ELSE Value[Len(digits)]

qMax(a, b) == IF a >= b THEN a ELSE b

\* QChar::decomposition, by the Unicode character database: U+00C9 and
\* U+00E9 are the letter and U+0301 (canonical), U+00BD is 1 U+2044 2
\* (fraction), U+00B2 is 2 (super); the other characters of the model have
\* no decomposition.  The code reads decomposition[0] only, and that is what
\* is kept here.
decomposition(c) ==
  CASE c = "É" -> "E"
    [] c = "é" -> "e"
    [] c = "½" -> "1"
    [] c = "²" -> "2"
    [] OTHER -> ""

\* c.decompositionTag() != QChar::NoDecomposition
HasDecomposition(c) == decomposition(c) # ""

----------------------------------------------------------------------------
(* QueryOptions::Matches *)

NoFilter ==
  [filter_ |-> "", filter_isNull |-> TRUE, max_age_ |-> -1, query_mode_ |-> "All"]

\* CollectionQuery::CollectionQuery(db, songs_table, options) and Exec: the
\* rows of SELECT ... WHERE ctime > cutoff AND (artist = '' OR album = '' OR
\* title = '') AND unavailable = 0, joined with the view duplicated_songs
\* (the rows another row shares artist, album and title with) in the mode
\* for duplicates
CollectionQueryExec(tbl, options, clock) ==
  {i \in DOMAIN tbl :
     /\ options.max_age_ # -1 => tbl[i].ctime > clock - options.max_age_
     /\ options.query_mode_ = "Untagged" =>
          (tbl[i].artist = "" \/ tbl[i].album = "" \/ tbl[i].title = "")
     /\ options.query_mode_ = "Duplicates" =>
          \E j \in DOMAIN tbl \ {i} :
             /\ tbl[j].artist = tbl[i].artist
             /\ tbl[j].album = tbl[i].album
             /\ tbl[j].title = tbl[i].title
     /\ ~tbl[i].unavailable}

MatchesAge(options, song, clock) ==
  options.max_age_ # -1 => ~(song.ctime <= clock - options.max_age_)

MatchesText(options, song) ==
  ~options.filter_isNull =>
     \/ contains(song.artist, options.filter_)
     \/ contains(song.album, options.filter_)
     \/ contains(song.title, options.filter_)

Matches(options, song, clock) ==
  IF ~MatchesAge(options, song, clock) THEN FALSE
  ELSE MatchesText(options, song)

----------------------------------------------------------------------------
(* CollectionModel: the group keys and the texts of an item *)

\* CollectionModel::IsArtistGroupBy
IsArtistGroupBy(type) == type \in {"Artist", "AlbumArtist"}

\* tr("Unknown"), tr("Various artists")
TextOrUnknown(text) == IF text = "" THEN "Unknown" ELSE text

VariousArtists == "Various artists"

\* Song::kAlbumRemoveDisc: no album of the library carries a disc suffix
kAlbumRemoveDisc(album) == FALSE

DiscNumber(disc) == CharAt(Digits, disc + 1)

PrettyAlbumDisc(album, disc) ==
  IF disc <= 0 \/ kAlbumRemoveDisc(album) THEN TextOrUnknown(album)
  ELSE TextOrUnknown(album) \o " - (Disc " \o DiscNumber(disc) \o ")"

WithAlbumId(key, song) ==
  IF song.album_id # "" THEN key \o "-" \o song.album_id ELSE key

ContainerKey(type, song) ==
  CASE type = "AlbumArtist" -> TextOrUnknown(effective_albumartist(song))
    [] type = "Artist" -> TextOrUnknown(song.artist)
    [] type = "Album" -> WithAlbumId(TextOrUnknown(song.album), song)
    [] type = "AlbumDisc" -> WithAlbumId(PrettyAlbumDisc(song.album, song.disc), song)
    [] type = "Year" -> NumberText(qMax(0, song.year))
    [] type = "Samplerate" -> NumberText(qMax(0, song.samplerate))
    [] type = "Bitdepth" -> NumberText(qMax(0, song.bitdepth))
    [] type = "Bitrate" -> NumberText(qMax(0, song.bitrate))
    [] OTHER -> ""

SortText(text) ==
  RemoveNonWord(IF text = "" THEN " unknown" ELSE toLower(text))

\* Song::kArticles
kArticles == <<"the ", "a ", "an ">>

SortTextForArtist(artist) ==
  LET text == SortText(artist)
      hits == {n \in 1..Len(kArticles) : startsWith(text, kArticles[n])}
      i == kArticles[CHOOSE n \in hits : \A m \in hits : n <= m]
  IN IF hits = {} THEN text
     ELSE SubSeq(text, Len(i) + 1, Len(text)) \o ", " \o SubSeq(i, 1, Len(i) - 1)

\* SortTextForNumber(number): QString("%1").arg(number, 4, 10, QChar('0')).
\* With the fill character '0' the number is zero-padded: the zeros follow
\* the sign
SortTextForNumber(number) ==
  LET text == NumberText(IF number < 0 THEN -number ELSE number)
      width == IF number < 0 THEN 3 ELSE 4
      sign == IF number < 0 THEN "-" ELSE ""
  IN IF Len(text) >= width THEN sign \o text
     ELSE sign \o SubSeq("0000", 1, width - Len(text)) \o text

\* the groupings DividerKey divides by the first character of the sort text
TextLike == {"AlbumArtist", "Artist", "Album", "AlbumDisc"}

DividerKey(type, item) ==
  IF item.sort_text = "" THEN ""
  ELSE IF type \in TextLike THEN
    LET c == CharAt(item.sort_text, 1)
    IN IF IndexIn(Digits, c) # 0 THEN "0"
       ELSE IF c = " " THEN ""
       ELSE IF HasDecomposition(c) THEN CharAt(decomposition(c), 1)
       ELSE c
  ELSE IF type = "Year" THEN SortTextForNumber((toInt(item.sort_text) \div 10) * 10)
  ELSE IF type = "Samplerate" THEN SortTextForNumber(item.metadata.samplerate)
  ELSE IF type = "Bitdepth" THEN SortTextForNumber(item.metadata.bitdepth)
  ELSE IF type = "Bitrate" THEN SortTextForNumber(item.metadata.bitrate)
  ELSE ""

DividerDisplayText(type, key) ==
  IF type \in TextLike
  THEN (IF key = "0" THEN "0-9" ELSE toUpper(key))
  ELSE IF type = "Year"
  THEN (IF key = "0000" THEN "Unknown" ELSE NumberText(toInt(key)))
  ELSE IF type \in {"Samplerate", "Bitdepth", "Bitrate"}
  THEN (IF key = "000" THEN "Unknown" ELSE NumberText(toInt(key)))
  ELSE ""

----------------------------------------------------------------------------
(* CollectionModel: the tree.  An item is named by its level, its key and   *)
(* whether it is a Various artists node; the index is the record of the     *)
(* four members a slot reads and writes.                                    *)

Root == <<-1, "", FALSE>>
NullItem == <<-2, "", FALSE>>

CollectionItem(parent, key, container_level, display_text, sort_text) ==
  [parent |-> parent, key |-> key, container_level |-> container_level,
   display_text |-> display_text, sort_text |-> sort_text,
   metadata |-> InvalidSong,
   compilation_artist_node_ |-> NullItem]

\* root_ = new CollectionItem(this)
RootItem == CollectionItem(NullItem, "", -1, "", "")

EmptyIndex ==
  [items |-> (Root :> RootItem),
   container_nodes_ |-> <<(<<>>), (<<>>), (<<>>)>>,
   song_nodes_ |-> <<>>,
   divider_nodes_ |-> <<>>]

Index ==
  [items |-> items, container_nodes_ |-> container_nodes_,
   song_nodes_ |-> song_nodes_, divider_nodes_ |-> divider_nodes_]

Remove(map, key) == [k \in DOMAIN map \ {key} |-> map[k]]

\* item->children.count(), for a container
ChildCount(ix, item) ==
  Cardinality({n \in DOMAIN ix.items : ix.items[n].parent = item})
  + Cardinality({id \in DOMAIN ix.song_nodes_ : ix.song_nodes_[id].parent = item})

\* CollectionModel::IsCompilationArtistNode
IsCompilationArtistNode(ix, node) ==
  ix.items[ix.items[node].parent].compilation_artist_node_ = node

CreateCompilationArtistNode(ix, parent) ==
  LET key == (IF parent # Root /\ ix.items[parent].key # ""
              THEN ix.items[parent].key ELSE "") \o VariousArtists
      level == ix.items[parent].container_level + 1
      node == <<level, key, TRUE>>
  IN [ix EXCEPT
        !.items = (node :> CollectionItem(parent, key, level, VariousArtists, " various"))
                  @@ [@ EXCEPT ![parent].compilation_artist_node_ = node]]

\* the key ItemFromSong gives an item: parent->key + "-" + its own part
ItemKey(ix, parent, part) ==
  (IF parent # Root /\ ix.items[parent].key # ""
   THEN ix.items[parent].key \o "-" ELSE "") \o part

DisplayText(type, s) ==
  CASE type = "AlbumArtist" -> TextOrUnknown(effective_albumartist(s))
    [] type = "Artist" -> TextOrUnknown(s.artist)
    [] type = "Album" -> TextOrUnknown(s.album)
    [] type = "AlbumDisc" -> PrettyAlbumDisc(s.album, s.disc)
    [] type = "Year" -> NumberText(qMax(0, s.year))
    [] type = "Samplerate" -> NumberText(qMax(0, s.samplerate))
    [] type = "Bitdepth" -> NumberText(qMax(0, s.bitdepth))
    [] type = "Bitrate" -> NumberText(qMax(0, s.bitrate))
    [] OTHER -> ""

\* the fields ItemFromSong sets in the metadata of a container
ItemMetadata(type, s) ==
  CASE type = "AlbumArtist" -> [InvalidSong EXCEPT !.albumartist = effective_albumartist(s)]
    [] type = "Artist" -> [InvalidSong EXCEPT !.artist = s.artist]
    [] type = "Album" -> [InvalidSong EXCEPT !.album = s.album, !.album_id = s.album_id]
    [] type = "AlbumDisc" ->
         [InvalidSong EXCEPT !.album = s.album, !.album_id = s.album_id, !.disc = s.disc]
    [] type = "Year" -> [InvalidSong EXCEPT !.year = s.year]
    [] type = "Samplerate" -> [InvalidSong EXCEPT !.samplerate = s.samplerate]
    [] type = "Bitdepth" -> [InvalidSong EXCEPT !.bitdepth = s.bitdepth]
    [] type = "Bitrate" -> [InvalidSong EXCEPT !.bitrate = s.bitrate]
    [] OTHER -> InvalidSong

ItemSortText(type, s) ==
  CASE type = "AlbumArtist" -> SortTextForArtist(effective_albumartist(s))
    [] type = "Artist" -> SortTextForArtist(s.artist)
    [] type = "Album" -> SortTextForArtist(s.album)
    [] type = "AlbumDisc" ->
         s.album \o SortTextForNumber(IF s.disc > 0 THEN s.disc ELSE 0)
    [] type = "Year" -> SortTextForNumber(qMax(0, s.year)) \o " "
    [] type = "Samplerate" -> SortTextForNumber(qMax(0, s.samplerate)) \o " "
    [] type = "Bitdepth" -> SortTextForNumber(qMax(0, s.bitdepth)) \o " "
    [] type = "Bitrate" -> SortTextForNumber(qMax(0, s.bitrate)) \o " "
    [] OTHER -> ""

\* FinishItem: the divider of a top-level container
FinishItem(ix, type, create_divider, node) ==
  LET divider_key == DividerKey(type, ix.items[node])
  IN IF ~(create_divider /\ show_dividers_) \/ divider_key = "" THEN ix
     ELSE [ix EXCEPT
             !.items[node].sort_text = divider_key \o " " \o @,
             !.divider_nodes_ =
                IF divider_key \in DOMAIN @ THEN @
                ELSE (divider_key :>
                        [key |-> divider_key,
                         display_text |-> DividerDisplayText(type, divider_key),
                         sort_text |-> divider_key \o "  "]) @@ @]

\* the item ItemFromSong creates for a container
NewContainer(ix, type, parent, s, container_level) ==
  <<container_level, ItemKey(ix, parent, ContainerKey(type, s)), FALSE>>

\* ItemFromSong, for a container
ItemFromSong(ix, type, create_divider, parent, s, container_level) ==
  LET node == NewContainer(ix, type, parent, s, container_level)
  IN FinishItem([ix EXCEPT !.items =
                   (node :> [CollectionItem(parent, node[2], container_level,
                                            DisplayText(type, s), ItemSortText(type, s))
                               EXCEPT !.metadata = ItemMetadata(type, s)])
                   @@ @],
                type, create_divider, node)

\* ItemFromSong(GroupBy_None, ...): the leaf of a song
SongItem(ix, parent, s) ==
  [parent |-> parent, metadata |-> s, container_level |-> -1,
   key |-> ItemKey(ix, parent, TextOrUnknown(s.title))]

\* the loop over the three levels: the container the song goes under
RECURSIVE FindContainer(_, _, _, _, _)
FindContainer(ix, song, i, container, key) ==
  IF i = 3 \/ group_by_[i + 1] = "None"
  THEN [ix |-> ix, container |-> container]
  ELSE
    LET type == group_by_[i + 1]
        key1 == IF key # "" THEN key \o "-" ELSE key
        key2 == key1 \o ContainerKey(type, song)
    IN IF IsArtistGroupBy(type) /\ is_compilation(song) THEN
         LET ix1 == IF ix.items[container].compilation_artist_node_ = NullItem
                    THEN CreateCompilationArtistNode(ix, container) ELSE ix
             va == ix1.items[container].compilation_artist_node_
         IN FindContainer(ix1, song, i + 1, va, ix1.items[va].key)
       ELSE IF key2 \in DOMAIN ix.container_nodes_[i + 1] THEN
         FindContainer(ix, song, i + 1, ix.container_nodes_[i + 1][key2], key2)
       ELSE
         LET node == NewContainer(ix, type, container, song, i)
             ix1 == ItemFromSong(ix, type, i = 0, container, song, i)
         IN FindContainer([ix1 EXCEPT !.container_nodes_[i + 1] = (key2 :> node) @@ @],
                          song, i + 1, node, key2)

\* the body of SongsDiscovered with neither of its two checks
SongDiscoveredUnchecked(ix, song) ==
  LET found == FindContainer(ix, song, 0, Root, "")
  IN [found.ix EXCEPT !.song_nodes_ =
        (song.id :> SongItem(found.ix, found.container, song)) @@ @]

\* the body of the loop without the second check: QMap::insert puts the new
\* leaf in the place of the one the id had
SongDiscoveredReplacing(ix, song) ==
  IF ~Matches(query_options_, song, now) THEN ix
  ELSE LET found == FindContainer(ix, song, 0, Root, "")
       IN [found.ix EXCEPT !.song_nodes_ =
             (song.id :> SongItem(found.ix, found.container, song)) @@ @]

\* the body of the loop of SongsDiscovered, for one song
SongDiscovered(ix, song) ==
  IF ~Matches(query_options_, song, now) THEN ix
  ELSE IF song.id \in DOMAIN ix.song_nodes_ THEN ix
  ELSE LET found == FindContainer(ix, song, 0, Root, "")
       IN [found.ix EXCEPT !.song_nodes_ =
             (song.id :> SongItem(found.ix, found.container, song)) @@ @]

RECURSIVE SongsDiscoveredLoop(_, _)
SongsDiscoveredLoop(ix, songs) ==
  IF songs = <<>> THEN ix
  ELSE SongsDiscoveredLoop(SongDiscovered(ix, Head(songs)), Tail(songs))

Store(ix) ==
  /\ items' = ix.items
  /\ container_nodes_' = ix.container_nodes_
  /\ song_nodes_' = ix.song_nodes_
  /\ divider_nodes_' = ix.divider_nodes_

SongsDiscovered(songs) ==
  /\ Store(SongsDiscoveredLoop(Index, songs))
  /\ UNCHANGED <<group_by_, query_options_, show_dividers_>>

\* BeginReset without divider_nodes_.clear()
BeginResetKeepingDividers(ix) ==
  [ix EXCEPT !.items = (Root :> RootItem),
             !.song_nodes_ = <<>>,
             !.container_nodes_ = <<(<<>>), (<<>>), (<<>>)>>]

\* CollectionModel::BeginReset: delete root_ takes every item with it, the
\* maps are cleared, root_ is a new item with no compilation artist node
BeginReset(ix) ==
  [ix EXCEPT !.items = (Root :> RootItem),
             !.song_nodes_ = <<>>,
             !.container_nodes_ = <<(<<>>), (<<>>), (<<>>)>>,
             !.divider_nodes_ = <<>>]

\* CollectionModel::Reset
Reset == Store(BeginReset(Index))

\* CollectionModel::set_show_dividers
set_show_dividers(show_dividers) ==
  IF show_dividers # show_dividers_
  THEN /\ show_dividers_' = show_dividers
       /\ Reset
       /\ UNCHANGED <<group_by_, query_options_>>
  ELSE UNCHANGED <<configVars, treeVars>>

\* SongsSlightlyChanged taking song_nodes_[song.id] without asking contains():
\* a record without a leaf gets an entry of the map
SongsSlightlyChangedInserting(songs) ==
  /\ song_nodes_' =
       [id \in DOMAIN song_nodes_ \cup {songs[k].id : k \in 1..Len(songs)} |->
          LET hits == {k \in 1..Len(songs) : songs[k].id = id}
              last == songs[CHOOSE k \in hits : \A n \in hits : n <= k]
          IN IF hits = {} THEN song_nodes_[id]
             ELSE IF id \in DOMAIN song_nodes_
                    THEN [song_nodes_[id] EXCEPT !.metadata = last]
                    ELSE [parent |-> NullItem, metadata |-> last]]
  /\ UNCHANGED <<items, container_nodes_, divider_nodes_, configVars>>

\* CollectionModel::SongsSlightlyChanged
SongsSlightlyChanged(songs) ==
  /\ song_nodes_' =
       [id \in DOMAIN song_nodes_ |->
          LET hits == {k \in 1..Len(songs) : songs[k].id = id}
          IN IF hits = {} THEN song_nodes_[id]
             ELSE [song_nodes_[id] EXCEPT
                     !.metadata = songs[CHOOSE k \in hits : \A n \in hits : n <= k]]]
  /\ UNCHANGED <<items, container_nodes_, divider_nodes_, configVars>>

\* CollectionModel::RunQuery: the rows of the query of query_options_
RunQuery(tbl) ==
  LET rows == SeqFromSet(CollectionQueryExec(tbl, query_options_, now))
  IN [k \in 1..Len(rows) |-> tbl[rows[k]]]

\* CollectionModel::PostQuery: the loop of SongsDiscovered over the rows
PostQuery(ix, result) ==
  SongsDiscoveredLoop(ix, [k \in 1..Len(result) |-> InitFromQuery(result[k])])

\* the item Init() shows under the root while the query runs
LoadingIndicator == <<-3, "", FALSE>>

\* CollectionModel::Init: BeginReset, the loading indicator, ResetAsync
\* (QtConcurrent::run of RunQuery on a thread of the pool)
CollectionModelInit ==
  /\ Store([BeginReset(Index) EXCEPT
              !.items = (LoadingIndicator :> CollectionItem(Root, "", -1, "Loading...", ""))
                        @@ @])
  /\ threads' = [threads EXCEPT !["pool"].op = "RunQuery"]

\* CollectionModel::SetFilterQueryMode
SetFilterQueryMode(query_mode) ==
  /\ query_options_' = [query_options_ EXCEPT !.query_mode_ = query_mode]
  /\ CollectionModelInit
  /\ UNCHANGED <<group_by_, show_dividers_>>

\* CollectionModel::ResetAsyncQueryFinished
\* CollectionModel::SetGroupBy: the grouping, then Init()
SetGroupBy(g) ==
  /\ group_by_' = g
  /\ CollectionModelInit
  /\ UNCHANGED <<query_options_, show_dividers_>>

ResetAsyncQueryFinished(result) ==
  /\ Store(PostQuery(BeginReset(Index), result))
  /\ UNCHANGED configVars

\* the first loop of SongsDeleted: the leaves go, their parents are noted
RECURSIVE DeleteSongNodes(_, _, _)
DeleteSongNodes(ix, songs, parents) ==
  IF songs = <<>> THEN [ix |-> ix, parents |-> parents]
  ELSE LET id == Head(songs).id
       IN IF id \in DOMAIN ix.song_nodes_
          THEN DeleteSongNodes([ix EXCEPT !.song_nodes_ = Remove(@, id)], Tail(songs),
                               parents \cup ({ix.song_nodes_[id].parent} \ {Root}))
          ELSE DeleteSongNodes(ix, Tail(songs), parents)

\* the key of the container leaves the map of its level, or the Various
\* artists slot of its parent, and the container stays in the tree
DeleteContainerKeepingItem(ix, node) ==
  LET level == ix.items[node].container_level
  IN IF IsCompilationArtistNode(ix, node)
     THEN [ix EXCEPT !.items[ix.items[node].parent].compilation_artist_node_ = NullItem]
     ELSE IF ix.items[node].key \in DOMAIN ix.container_nodes_[level + 1]
     THEN [ix EXCEPT !.container_nodes_[level + 1] = Remove(@, ix.items[node].key)]
     ELSE ix

\* a SongsDeleted that treats the Various artists node as any container: its
\* key leaves the map of its level and the parent's slot is left as it is
DeleteContainerByKey(ix, node) ==
  LET level == ix.items[node].container_level
      unlinked ==
        IF ix.items[node].key \in DOMAIN ix.container_nodes_[level + 1]
        THEN [ix EXCEPT !.container_nodes_[level + 1] = Remove(@, ix.items[node].key)]
        ELSE ix
  IN [unlinked EXCEPT !.items = Remove(@, node)]

\* an empty container leaves the tree and the map of its level
DeleteContainer(ix, node) ==
  LET level == ix.items[node].container_level
      unlinked ==
        IF IsCompilationArtistNode(ix, node)
        THEN [ix EXCEPT !.items[ix.items[node].parent].compilation_artist_node_ = NullItem]
        ELSE IF ix.items[node].key \in DOMAIN ix.container_nodes_[level + 1]
        THEN [ix EXCEPT !.container_nodes_[level + 1] = Remove(@, ix.items[node].key)]
        ELSE ix
  IN [unlinked EXCEPT !.items = Remove(@, node)]

\* the while loop of SongsDeleted: parents_copy is walked in the order the
\* QSet gives, parents collects the next round
RECURSIVE DeleteEmptyParents(_, _, _, _)
DeleteEmptyParents(ix, parents_copy, parents, divider_keys) ==
  IF parents_copy = {} THEN
    (IF parents = {} THEN [ix |-> ix, divider_keys |-> divider_keys]
     ELSE DeleteEmptyParents(ix, parents, parents, divider_keys))
  ELSE
    LET node == CHOOSE n \in parents_copy : TRUE
        rest == parents_copy \ {node}
    IN IF ChildCount(ix, node) # 0
       THEN DeleteEmptyParents(ix, rest, parents \ {node}, divider_keys)
       ELSE DeleteEmptyParents(
              DeleteContainer(ix, node), rest,
              (parents \ {node}) \cup ({ix.items[node].parent} \ {Root}),
              IF ix.items[node].container_level = 0
              THEN divider_keys \cup {DividerKey(group_by_[1], ix.items[node])}
              ELSE divider_keys)

\* the last loop of SongsDeleted: a divider no top-level container is under
DeleteEmptyDividers(ix, divider_keys) ==
  LET top == ix.container_nodes_[1]
      unused == {d \in divider_keys \cap DOMAIN ix.divider_nodes_ :
                   ~\E k \in DOMAIN top :
                      DividerKey(group_by_[1], ix.items[top[k]]) = d}
  IN [ix EXCEPT !.divider_nodes_ = [d \in DOMAIN @ \ unused |-> @[d]]]

\* a SongsDeleted that drops the whole call when a record of it has no leaf
SongsDeletedBodyAllOrNothing(ix, songs) ==
  IF \E k \in 1..Len(songs) : songs[k].id \notin DOMAIN ix.song_nodes_ THEN ix
  ELSE LET leaves == DeleteSongNodes(ix, songs, {})
           emptied == DeleteEmptyParents(leaves.ix, leaves.parents, leaves.parents, {})
       IN DeleteEmptyDividers(emptied.ix, emptied.divider_keys)

SongsDeletedBody(ix, songs) ==
  LET leaves == DeleteSongNodes(ix, songs, {})
      emptied == DeleteEmptyParents(leaves.ix, leaves.parents, leaves.parents, {})
  IN DeleteEmptyDividers(emptied.ix, emptied.divider_keys)

SongsDeleted(songs) ==
  /\ Store(SongsDeletedBody(Index, songs))
  /\ UNCHANGED <<group_by_, query_options_, show_dividers_>>

----------------------------------------------------------------------------
(* The reconciler under every batch of candidates a scanner or an importer *)
(* may deliver, any one SQL statement of a call failing                    *)

NoCall ==
  [op |-> "none", arg |-> <<>>, sql |-> <<>>, failed |-> FALSE,
   returned |-> FALSE, emitted |-> <<>>, queued |-> <<>>, repeat |-> FALSE]

RECURSIVE SeqsUpTo(_, _)
SeqsUpTo(S, n) ==
  IF n = 0 THEN {<<>>}
  ELSE LET shorter == SeqsUpTo(S, n - 1)
       IN shorter \cup {Append(q, x) : q \in shorter, x \in S}

\* candidates: new or carrying an id, with or without an external song_id,
\* the same tags twice or with another album; one is of directory 2, which
\* was removed while it was scanned
Candidates ==
  {NewSong(c[1], c[2], c[4], Url("/m/", "f"), "A", "", c[3], "T") :
     c \in {<<-1, "", "X", 1>>, <<-1, "s1", "X", 1>>, <<-1, "s1", "Y", 1>>,
            <<1, "", "Y", 1>>, <<1, "s1", "X", 1>>, <<-1, "s2", "X", 2>>}}

\* whole-library batches, keyed by song_id
SongMaps ==
  UNION {[keys -> {"X", "Y"}] :
           keys \in {k \in SUBSET {"s1", "s2"} : Cardinality(k) <= MaxBatch}}

\* the song with song_id "s2" is of directory 2
SongMap(albums) ==
  [k \in DOMAIN albums |->
     NewSong(-1, k, IF k = "s2" THEN 2 ELSE 1, Url("/m/", "f"), "A", "", albums[k], "T")]

\* the model as its constructor leaves it: grouped by album artist and
\* album/disc, dividers shown, no filter, an empty tree
DefaultGroupBy == <<"AlbumArtist", "AlbumDisc", "None">>

InitModel(group_by, options, dividers) ==
  /\ group_by_ = group_by
  /\ query_options_ = options
  /\ show_dividers_ = dividers
  /\ items = EmptyIndex.items
  /\ container_nodes_ = EmptyIndex.container_nodes_
  /\ song_nodes_ = EmptyIndex.song_nodes_
  /\ divider_nodes_ = EmptyIndex.divider_nodes_
  /\ inbox = <<>>
  /\ now = 1

\* the threads that call the backend
Callers == {"backend", "ui", "pool"}

\* no thread is in a function of the backend
NoThread == "none"

NotCalling == [op |-> "none", done |-> 0, connected |-> FALSE]

NoCaller ==
  /\ mutex = NoThread
  /\ threads = [t \in Callers |-> NotCalling]

\* the backend thread runs one queued call at a time (Qt::QueuedConnection):
\* the next call is taken when the last one has returned to the event loop,
\* or is the same call made once more
Idle == call.op = "none"

Again(op) == call.op = op /\ ~call.returned /\ ~call.failed /\ ~call.repeat

ReturnToEventLoop ==
  /\ ~Idle
  /\ call' = NoCall
  /\ UNCHANGED <<store, dirs, dirs_table_, mutex, threads>>
  /\ UNCHANGED <<modelVars, posted>>

InitReconcile ==
  /\ store = <<>>
  /\ NoCaller
  /\ posted = <<>>
  /\ dirs = {1}
  /\ dirs_table_ \in BOOLEAN
  /\ call = NoCall
  /\ InitModel(DefaultGroupBy, NoFilter, TRUE)

AddOrUpdateSongsCall ==
  \E songs \in SeqsUpTo(Candidates, MaxBatch), failAt \in 0..MaxStmts :
    /\ Idle
    /\ AddOrUpdateSongs(songs, failAt)
    /\ failAt <= Len(call'.sql)
    /\ WithinBounds(call'.sql, MaxRows)
    /\ UNCHANGED <<modelVars, posted>>

AddOrUpdateSongsAgain ==
  \E failAt \in 0..MaxStmts :
    /\ Again("AddOrUpdateSongs")
    /\ AddOrUpdateSongs(call.arg, failAt)
    /\ failAt <= Len(call'.sql)
    /\ WithinBounds(call'.sql, MaxRows)
    /\ UNCHANGED <<modelVars, posted>>

UpdateSongsBySongIDCall ==
  \E albums \in SongMaps, failAt \in 0..MaxStmts :
    /\ Idle
    /\ UpdateSongsBySongID(SongMap(albums), failAt)
    /\ failAt <= Len(call'.sql)
    /\ WithinBounds(call'.sql, MaxRows)
    /\ UNCHANGED <<modelVars, posted>>

UpdateSongsBySongIDAgain ==
  \E failAt \in 0..MaxStmts :
    /\ Again("UpdateSongsBySongID")
    /\ UpdateSongsBySongID(call.arg, failAt)
    /\ failAt <= Len(call'.sql)
    /\ WithinBounds(call'.sql, MaxRows)
    /\ UNCHANGED <<modelVars, posted>>

\* the user removes a directory from the collection
RemoveDirectoryCall ==
  \E dir \in dirs, failAt \in 0..MaxStmts :
    /\ Idle
    /\ RemoveDirectory(dir, failAt)
    /\ failAt <= Len(call'.sql)
    /\ UNCHANGED <<modelVars, posted>>

NextReconcile ==
  \/ RemoveDirectoryCall
  \/ AddOrUpdateSongsCall
  \/ AddOrUpdateSongsAgain
  \/ UpdateSongsBySongIDCall
  \/ UpdateSongsBySongIDAgain
  \/ ReturnToEventLoop

SpecReconcile == InitReconcile /\ [][NextReconcile]_vars

----------------------------------------------------------------------------
(* The watcher deletes the songs of files that are gone, several in a call *)

ScannerAddsSong ==
  \E song \in Candidates :
    /\ Idle
    /\ AddOrUpdateSongs(<<song>>, 0)
    /\ WithinBounds(call'.sql, MaxRows)
    /\ UNCHANGED <<modelVars, posted>>

WatcherDeleteSongs ==
  \E ids \in SeqsUpTo(DOMAIN store, MaxBatch) \ {<<>>}, failAt \in 0..MaxBatch :
    /\ Idle
    /\ DeleteSongs([k \in 1..Len(ids) |-> InitFromQuery(store[ids[k]])], failAt)
    /\ failAt <= Len(call'.sql)
    /\ UNCHANGED <<modelVars, posted>>

NextDelete ==
  \/ ScannerAddsSong
  \/ WatcherDeleteSongs
  \/ ReturnToEventLoop

SpecDelete == InitReconcile /\ [][NextDelete]_vars

----------------------------------------------------------------------------
(* The counters: the methods a call queues with Qt::QueuedConnection run on *)
(* the backend's thread after the call, in the order they were queued       *)

MaxPosted == 3    \* a call is taken while at most this many methods wait

\* QMetaObject::invokeMethod(this, ..., Qt::QueuedConnection)
invokeMethod == posted' = posted \o call'.queued

InvokeAddOrUpdateSongs ==
  \E songs \in SeqsUpTo(Candidates, MaxBatch), failAt \in 0..MaxStmts :
    /\ Idle /\ Len(posted) <= MaxPosted
    /\ AddOrUpdateSongs(songs, failAt)
    /\ failAt <= Len(call'.sql)
    /\ WithinBounds(call'.sql, MaxRows)
    /\ invokeMethod
    /\ UNCHANGED modelVars

InvokeUpdateSongsBySongID ==
  \E albums \in SongMaps, failAt \in 0..MaxStmts :
    /\ Idle /\ Len(posted) <= MaxPosted
    /\ UpdateSongsBySongID(SongMap(albums), failAt)
    /\ failAt <= Len(call'.sql)
    /\ WithinBounds(call'.sql, MaxRows)
    /\ invokeMethod
    /\ UNCHANGED modelVars

\* the event loop of the backend's thread takes the oldest queued method
PostedMethod ==
  \E failAt \in 0..1 :
    /\ Idle /\ posted # <<>>
    /\ CASE Head(posted) = "UpdateTotalSongCount" -> UpdateTotalSongCount(failAt)
         [] Head(posted) = "UpdateTotalArtistCount" -> UpdateTotalArtistCount(failAt)
         [] Head(posted) = "UpdateTotalAlbumCount" -> UpdateTotalAlbumCount(failAt)
    /\ posted' = Tail(posted)
    /\ UNCHANGED modelVars

InitTotals ==
  /\ InitReconcile
  /\ dirs_table_

NextTotals ==
  \/ InvokeAddOrUpdateSongs
  \/ InvokeUpdateSongsBySongID
  \/ PostedMethod
  \/ ReturnToEventLoop

SpecTotals == InitTotals /\ [][NextTotals]_vars

\* the event loop keeps running: a call returns to it, and a method that
\* waits is taken
FairTotals ==
  InitTotals /\ [][NextTotals]_vars
    /\ WF_vars(ReturnToEventLoop) /\ SF_vars(PostedMethod)

----------------------------------------------------------------------------
(* The classifier over a library the scanner fills: files of two            *)
(* directories, one file holding tracks of two albums, a tagged compilation, *)
(* a track retagged to have no album                                        *)

MaxTracks == 3    \* the largest ROWID the scanned library may reach

Tracks ==
  {NewSong(-1, "", 1, Url("/m/", "f1"), "A", "", "X", "T"),
   NewSong(-1, "", 1, Url("/m/", "f1"), "B", "", "x/X", "T"),
   NewSong(-1, "", 1, Url("/m/", "f2"), "B", "", "X", "T"),
   NewSong(-1, "", 1, Url("/m/x/", "f1"), "A", "", "X", "T"),
   [NewSong(-1, "", 1, Url("/m/", "f2"), "A", "", "X", "T") EXCEPT !.compilation = TRUE],
   NewSong(1, "", 1, Url("/m/", "f2"), "A", "", "", "T")}

InitClassify ==
  /\ store = <<>>
  /\ NoCaller
  /\ posted = <<>>
  /\ dirs = {1}
  /\ dirs_table_ = FALSE
  /\ call = NoCall
  /\ InitModel(DefaultGroupBy, NoFilter, TRUE)

ScanCall ==
  \E song \in Tracks :
    /\ Idle
    /\ AddOrUpdateSongs(<<song>>, 0)
    /\ WithinBounds(call'.sql, MaxTracks)
    /\ UNCHANGED <<modelVars, posted>>

CompilationsNeedUpdatingCall ==
  \E failAt \in 0..(1 + 2 * MaxTracks) :
    /\ Idle
    /\ CompilationsNeedUpdating(failAt)
    /\ failAt <= Len(call'.sql)
    /\ UNCHANGED <<modelVars, posted>>

CompilationsNeedUpdatingAgain ==
  /\ Again("CompilationsNeedUpdating")
  /\ CompilationsNeedUpdating(0)
  /\ UNCHANGED <<modelVars, posted>>

ForceCompilationCall ==
  \E artists \in {<<"">>, <<"A">>}, on \in BOOLEAN, failAt \in 0..3 :
    /\ Idle
    /\ ForceCompilation("X", artists, on, failAt)
    /\ failAt <= Len(call'.sql)
    /\ UNCHANGED <<modelVars, posted>>

\* the watcher finds a file gone and deletes its song
DeleteSongsCall ==
  \E id \in DOMAIN store :
    /\ Idle
    /\ DeleteSongs(<<InitFromQuery(store[id])>>, 0)
    /\ UNCHANGED <<modelVars, posted>>

\* the song scanned first is on a device that can be taken away: the song
\* is marked unavailable when the device is not there
Removable == {1}

MarkSongsUnavailableCall ==
  \E id \in DOMAIN store \cap Removable :
    /\ Idle
    /\ ~store[id].unavailable
    /\ MarkSongsUnavailable(<<InitFromQuery(store[id])>>, TRUE, 0)
    /\ UNCHANGED <<modelVars, posted>>

\* the pass the watcher queues behind the call that changed the table
CompilationsNeedUpdatingNext ==
  /\ call.op \in {"AddOrUpdateSongs", "DeleteSongs", "MarkSongsUnavailable"}
  /\ CompilationsNeedUpdating(0)
  /\ UNCHANGED <<modelVars, posted>>

NextClassify ==
  \/ ScanCall
  \/ DeleteSongsCall
  \/ MarkSongsUnavailableCall
  \/ CompilationsNeedUpdatingCall
  \/ CompilationsNeedUpdatingNext
  \/ CompilationsNeedUpdatingAgain
  \/ ForceCompilationCall
  \/ ReturnToEventLoop

SpecClassify == InitClassify /\ [][NextClassify]_vars

----------------------------------------------------------------------------
(* The model connected to the backend: the watcher adds, retags and marks   *)
(* songs, the backend's signals reach the model's slots in emission order,  *)
(* the clock moves on                                                       *)

MaxSongs == 2     \* the largest ROWID the watched library may reach
MaxClock == 2     \* the latest time the clock shows

\* artists and albums with a '-' in them, two tagged compilation tracks and
\* a track whose artist tag reads "Various artists", of the years 1994 and
\* 1995 or of no year; a song is new or is the retagged song 1
Library ==
  {[NewSong(id, "", 1, Url("/m/", "f"), c[1], "", c[2], "T")
      EXCEPT !.compilation = c[3], !.year = c[4]] :
     id \in {-1, 1},
     c \in {<<"A-B", "C", FALSE, 1994>>, <<"A", "B-C", FALSE, 1995>>,
            <<"A", "C", TRUE, -1>>, <<"B", "C", TRUE, -1>>,
            <<VariousArtists, "C", FALSE, -1>>}}

\* what the user has configured: the grouping, the filter, the dividers
Configurations ==
  {<<DefaultGroupBy, NoFilter, TRUE>>,
   <<(<<"Artist", "Album", "None">>), NoFilter, TRUE>>,
   <<(<<"Artist", "Album", "None">>), [NoFilter EXCEPT !.filter_ = "b", !.filter_isNull = FALSE], FALSE>>,
   <<(<<"Album", "Artist", "None">>), [NoFilter EXCEPT !.max_age_ = 1], TRUE>>,
   <<(<<"Year", "None", "None">>), NoFilter, TRUE>>,
   <<(<<"None", "None", "None">>), NoFilter, TRUE>>}

InitIndex ==
  /\ store = <<>>
  /\ NoCaller
  /\ posted = <<>>
  /\ dirs = {1}
  /\ dirs_table_ = FALSE
  /\ call = NoCall
  /\ \E c \in Configurations : InitModel(c[1], c[2], c[3])

\* QObject::connect(backend_, &CollectionBackend::SongsDiscovered, this, ...):
\* the signals of the call are queued to the model's thread
Queued ==
  /\ inbox' = inbox \o call'.emitted
  /\ UNCHANGED <<configVars, treeVars, now, posted>>

WatcherAddOrUpdateSongs ==
  \E song \in Library :
    /\ Idle /\ inbox = <<>>
    /\ AddOrUpdateSongs(<<song>>, 0)
    /\ WithinBounds(call'.sql, MaxSongs)
    /\ Queued

\* the watcher marks the songs of a directory, one or more rows of the table
\* in any order, a row it lists twice included
WatcherMarkSongsUnavailable ==
  \E ids \in SeqsUpTo(DOMAIN store, MaxSongs) \ {<<>>}, unavailable \in BOOLEAN :
    /\ Idle /\ inbox = <<>>
    /\ MarkSongsUnavailable([k \in 1..Len(ids) |-> InitFromQuery(store[ids[k]])],
                            unavailable, 0)
    /\ Queued

SongsDiscoveredSlot ==
  /\ inbox # <<>> /\ Head(inbox).signal = "SongsDiscovered"
  /\ SongsDiscovered(Head(inbox).songs)
  /\ inbox' = Tail(inbox)
  /\ UNCHANGED <<backendVars, now>>

SongsDeletedSlot ==
  /\ inbox # <<>> /\ Head(inbox).signal = "SongsDeleted"
  /\ SongsDeleted(Head(inbox).songs)
  /\ inbox' = Tail(inbox)
  /\ UNCHANGED <<backendVars, now>>

\* QObject::connect(backend_, &CollectionBackend::DatabaseReset, this,
\* &CollectionModel::Reset)
DatabaseResetSlot ==
  /\ inbox # <<>> /\ Head(inbox).signal = "DatabaseReset"
  /\ Reset
  /\ inbox' = Tail(inbox)
  /\ UNCHANGED <<backendVars, configVars, now>>

\* the user empties the collection; the statement may fail
WatcherDeleteAll ==
  \E failAt \in 0..1 :
    /\ Idle /\ inbox = <<>>
    /\ DeleteAll(failAt)
    /\ Queued

\* the user switches the dividers on or off, or sets them as they are, when
\* the signals of the last call have been handled
SetShowDividers ==
  \E show_dividers \in BOOLEAN :
    /\ Idle /\ inbox = <<>>
    /\ set_show_dividers(show_dividers)
    /\ UNCHANGED <<backendVars, inbox, now>>

Tick ==
  /\ now < MaxClock
  /\ now' = now + 1
  /\ UNCHANGED <<backendVars, configVars, treeVars, inbox>>

NextIndex ==
  \/ WatcherAddOrUpdateSongs
  \/ WatcherMarkSongsUnavailable
  \/ SongsDiscoveredSlot
  \/ SongsDeletedSlot
  \/ Tick
  \/ ReturnToEventLoop

SpecIndex == InitIndex /\ [][NextIndex]_vars

\* the index kept by the deltas and reset: by DatabaseReset when the
\* collection is emptied, and by set_show_dividers
NextReset ==
  \/ WatcherAddOrUpdateSongs
  \/ WatcherMarkSongsUnavailable
  \/ SongsDiscoveredSlot
  \/ SongsDeletedSlot
  \/ DatabaseResetSlot
  \/ WatcherDeleteAll
  \/ SetShowDividers
  \/ Tick
  \/ ReturnToEventLoop

SpecReset == InitIndex /\ [][NextReset]_vars

----------------------------------------------------------------------------
(* The classifier over albums whose artists are spelled in two cases *)

\* tracks of one album, each in a file of its own, by "A" and by "a", one
\* of them with the album artist "A", one in another directory
CaseTracks ==
  {NewSong(-1, "", 1, Url("/m/", "f1"), "A", "", "X", "T"),
   NewSong(-1, "", 1, Url("/m/", "f2"), "a", "", "X", "T"),
   NewSong(-1, "", 1, Url("/m/", "f3"), "A", "", "X", "T"),
   NewSong(-1, "", 1, Url("/m/", "f4"), "a", "A", "X", "T"),
   NewSong(-1, "", 1, Url("/m/x/", "f1"), "a", "", "X", "T")}

ScanCaseCall ==
  \E song \in CaseTracks :
    /\ Idle
    /\ AddOrUpdateSongs(<<song>>, 0)
    /\ WithinBounds(call'.sql, MaxTracks)
    /\ UNCHANGED <<modelVars, posted>>

NextCase ==
  \/ ScanCaseCall
  \/ CompilationsNeedUpdatingCall
  \/ ReturnToEventLoop

SpecCase == InitClassify /\ [][NextCase]_vars

----------------------------------------------------------------------------
(* The dividers of the top level under every grouping the model has: songs  *)
(* of the library are discovered and deleted one at a time                  *)

\* songs whose sort texts begin with a digit, a blank (no tag), a letter with
\* a diacritic, a fraction, a superscript and a plain letter, with the
\* numeric tags unset (-1), zero and set
DividerLibrary ==
  {[NewSong(c[1], "", 1, Url("/m/", "f"), c[2], "", c[3], "T")
      EXCEPT !.year = c[4], !.samplerate = c[5], !.bitdepth = c[6], !.bitrate = c[7]] :
     c \in {<<1, "2pac", "a", -1, -1, -1, -1>>,
            <<2, "", "", 0, 0, 0, 0>>,
            <<3, "Édith", "Éa", 1995, 44100, 16, 320>>,
            <<4, "½ J", "²", 1999, 48000, 24, 0>>,
            <<5, "Eels", "e", 0, 44100, 0, 128>>}}

\* the groupings of the top level, nothing below it
TopLevelGroupings ==
  TextLike \cup {"Year", "Samplerate", "Bitdepth", "Bitrate"}

InitDividers ==
  /\ store = <<>>
  /\ NoCaller
  /\ posted = <<>>
  /\ dirs = {1}
  /\ dirs_table_ = FALSE
  /\ call = NoCall
  /\ \E type \in TopLevelGroupings : InitModel(<<type, "None", "None">>, NoFilter, TRUE)

\* the slot SongsDiscovered, with a song the index has no leaf of
DiscoverSong ==
  \E song \in DividerLibrary :
    /\ song.id \notin DOMAIN song_nodes_
    /\ SongsDiscovered(<<song>>)
    /\ UNCHANGED <<backendVars, inbox, now>>

\* the slot SongsDeleted, with a song the index has a leaf of
DeleteSong ==
  \E id \in DOMAIN song_nodes_ :
    /\ SongsDeleted(<<song_nodes_[id].metadata>>)
    /\ UNCHANGED <<backendVars, inbox, now>>

NextDividers ==
  \/ DiscoverSong
  \/ DeleteSong

SpecDividers == InitDividers /\ [][NextDividers]_vars

----------------------------------------------------------------------------
(* The index populated by a query and kept by the signals: songs are added, *)
(* retagged and played, the user changes the query mode, the query runs on  *)
(* a thread of the pool and its result is applied on the model's thread     *)

MaxPlays == 1     \* the most a song is played

\* the player counts a song played; the song may be gone by then
PlayerIncrementPlayCount ==
  \E id \in {-1} \cup 1..MaxSongs, failAt \in 0..2 :
    /\ Idle /\ inbox = <<>>
    /\ id \in DOMAIN store => store[id].playcount < MaxPlays
    /\ IncrementPlayCount(id, failAt)
    /\ failAt <= Len(call'.sql)
    /\ Queued

\* connect(backend_, SongsStatisticsChanged / SongsRatingChanged, this,
\* &CollectionModel::SongsSlightlyChanged)
SongsSlightlyChangedSlot ==
  /\ inbox # <<>> /\ Head(inbox).signal = "SongsStatisticsChanged"
  /\ SongsSlightlyChanged(Head(inbox).songs)
  /\ inbox' = Tail(inbox)
  /\ UNCHANGED <<backendVars, now>>

\* the user picks a query mode; one query runs at a time
UserSetFilterQueryMode ==
  \E query_mode \in {"All", "Untagged", "Duplicates"} :
    /\ Idle /\ inbox = <<>> /\ threads["pool"] = NotCalling
    /\ SetFilterQueryMode(query_mode)
    /\ UNCHANGED <<store, dirs, dirs_table_, call, mutex, posted, inbox, now>>

\* the thread of the pool runs RunQuery; QFutureWatcher::finished is queued
\* to the model's thread with the result
PoolRunQuery ==
  /\ threads["pool"].op = "RunQuery"
  /\ inbox' = Append(inbox, Signal("finished", RunQuery(store)))
  /\ threads' = [threads EXCEPT !["pool"] = NotCalling]
  /\ UNCHANGED <<store, dirs, dirs_table_, call, mutex, posted, configVars,
               treeVars, now>>

ResetAsyncQueryFinishedSlot ==
  /\ inbox # <<>> /\ Head(inbox).signal = "finished"
  /\ ResetAsyncQueryFinished(Head(inbox).songs)
  /\ inbox' = Tail(inbox)
  /\ UNCHANGED <<backendVars, now>>

NextPopulate ==
  \/ WatcherAddOrUpdateSongs
  \/ PlayerIncrementPlayCount
  \/ SongsDiscoveredSlot
  \/ SongsDeletedSlot
  \/ SongsSlightlyChangedSlot
  \/ UserSetFilterQueryMode
  \/ PoolRunQuery
  \/ ResetAsyncQueryFinishedSlot
  \/ ReturnToEventLoop

SpecPopulate == InitIndex /\ [][NextPopulate]_vars

----------------------------------------------------------------------------
(* The index behind the calls that update records: a call is made when the *)
(* model has applied what the last one emitted                              *)

ScannerUpdatesSongs ==
  \E song \in Tracks :
    /\ Idle /\ inbox = <<>>
    /\ AddOrUpdateSongs(<<song>>, 0)
    /\ WithinBounds(call'.sql, MaxTracks)
    /\ Queued

ScannerUpdatesSongsBySongID ==
  \E albums \in SongMaps :
    /\ Idle /\ inbox = <<>>
    /\ UpdateSongsBySongID(SongMap(albums), 0)
    /\ WithinBounds(call'.sql, MaxTracks)
    /\ Queued

ScannerCompilationsNeedUpdating ==
  /\ Idle /\ inbox = <<>>
  /\ CompilationsNeedUpdating(0)
  /\ Queued

UserForceCompilation ==
  \E artists \in {<<"">>, <<"A">>}, on \in BOOLEAN :
    /\ Idle /\ inbox = <<>>
    /\ ForceCompilation("X", artists, on, 0)
    /\ Queued

NextUpdate ==
  \/ ScannerUpdatesSongs
  \/ ScannerUpdatesSongsBySongID
  \/ ScannerCompilationsNeedUpdating
  \/ UserForceCompilation
  \/ SongsDiscoveredSlot
  \/ SongsDeletedSlot
  \/ ReturnToEventLoop

InitUpdate ==
  /\ store = <<>>
  /\ NoCaller
  /\ posted = <<>>
  /\ dirs = {1}
  /\ dirs_table_ = FALSE
  /\ call = NoCall
  /\ InitModel(DefaultGroupBy, NoFilter, TRUE)

SpecUpdate == InitUpdate /\ [][NextUpdate]_vars

----------------------------------------------------------------------------
(* The statistics of the songs: the player and the scrobbler's lists        *)

MaxRating == 1    \* the ratings are 0..MaxRating

StatisticsAddSong ==
  \E song \in {c \in Candidates : c.song_id = ""} :
    /\ Idle
    /\ AddOrUpdateSongs(<<song>>, 0)
    /\ WithinBounds(call'.sql, MaxRows)
    /\ UNCHANGED <<modelVars, posted>>

StatisticsIncrementPlayCount ==
  \E id \in {-1} \cup 1..MaxRows, failAt \in 0..2 :
    /\ Idle
    /\ id \in DOMAIN store => store[id].playcount < MaxPlays
    /\ IncrementPlayCount(id, failAt)
    /\ failAt <= Len(call'.sql)
    /\ UNCHANGED <<modelVars, posted>>

StatisticsUpdateLastPlayed ==
  \E album \in {"", "x"}, lastplayed \in 0..MaxClock, failAt \in 0..(1 + MaxRows) :
    /\ Idle
    /\ UpdateLastPlayed("a", album, "t", lastplayed, failAt)
    /\ failAt <= Len(call'.sql)
    /\ UNCHANGED <<modelVars, posted>>

StatisticsUpdatePlayCount ==
  \E playcount \in 0..MaxPlays, failAt \in 0..(1 + MaxRows) :
    /\ Idle
    /\ UpdatePlayCount("a", "t", playcount, failAt)
    /\ failAt <= Len(call'.sql)
    /\ UNCHANGED <<modelVars, posted>>

StatisticsUpdateSongsRating ==
  \E id_list \in {{}, {1}, 1..MaxRows}, rating \in 0..MaxRating, failAt \in 0..2 :
    /\ Idle
    /\ UpdateSongsRating(id_list, rating, failAt)
    /\ failAt <= Len(call'.sql)
    /\ UNCHANGED <<modelVars, posted>>

NextStatistics ==
  \/ StatisticsAddSong
  \/ StatisticsIncrementPlayCount
  \/ StatisticsUpdateLastPlayed
  \/ StatisticsUpdatePlayCount
  \/ StatisticsUpdateSongsRating
  \/ ReturnToEventLoop

SpecStatistics == InitTotals /\ [][NextStatistics]_vars

----------------------------------------------------------------------------
(* The model asks for every song: Init() numbers its requests              *)

MaxInit == 2      \* the ids of the requests are 1..MaxInit

ScannerAddsSongs ==
  \E song \in Candidates :
    /\ Idle
    /\ AddOrUpdateSongs(<<song>>, 0)
    /\ WithinBounds(call'.sql, MaxRows)
    /\ UNCHANGED <<modelVars, posted>>

GetAllSongsCall ==
  \E id \in 1..MaxInit, failAt \in 0..1 :
    /\ Idle
    /\ GetAllSongs(id, failAt)
    /\ UNCHANGED <<modelVars, posted>>

NextGetAllSongs ==
  \/ ScannerAddsSongs
  \/ GetAllSongsCall
  \/ ReturnToEventLoop

SpecGetAllSongs == InitTotals /\ [][NextGetAllSongs]_vars

----------------------------------------------------------------------------
(* The four operations on the index: the deltas, the reset of the table    *)
(* and the population the filter's query mode "All" starts                  *)

UserShowsAll ==
  /\ Idle /\ inbox = <<>> /\ threads["pool"] = NotCalling
  /\ SetFilterQueryMode("All")
  /\ UNCHANGED <<store, dirs, dirs_table_, call, mutex, posted, inbox, now>>

NextMaps ==
  \/ WatcherAddOrUpdateSongs
  \/ WatcherMarkSongsUnavailable
  \/ SongsDiscoveredSlot
  \/ SongsDeletedSlot
  \/ DatabaseResetSlot
  \/ WatcherDeleteAll
  \/ UserShowsAll
  \/ PoolRunQuery
  \/ ResetAsyncQueryFinishedSlot
  \/ ReturnToEventLoop

SpecMaps == InitIndex /\ [][NextMaps]_vars

----------------------------------------------------------------------------
(* The population next to the deltas: RunQuery reads the table on a thread *)
(* of the pool, and QFutureWatcher::finished is queued to the model's      *)
(* thread when RunQuery has returned, behind what was queued meanwhile      *)

MaxInbox == 2     \* the backend is called while fewer signals wait

\* the pool's thread after RunQuery's block: the rows it read are in hand
Read(result) ==
  [op |-> "return", done |-> 0, connected |-> FALSE, result |-> result]

HasRead == threads["pool"].op = "return"

InitPopulation ==
  /\ store = <<>>
  /\ NoCaller
  /\ posted = <<>>
  /\ dirs = {1}
  /\ dirs_table_ = FALSE
  /\ call = NoCall
  /\ InitModel(DefaultGroupBy, NoFilter, TRUE)

ScannerAddOrUpdateSongs ==
  \E song \in {s \in Library : s.artist = "A"} :
    /\ Idle /\ Len(inbox) < MaxInbox
    /\ AddOrUpdateSongs(<<song>>, 0)
    /\ WithinBounds(call'.sql, MaxSongs)
    /\ Queued

ScannerDeleteSongs ==
  \E id \in DOMAIN store :
    /\ Idle /\ Len(inbox) < MaxInbox
    /\ DeleteSongs(<<InitFromQuery(store[id])>>, 0)
    /\ Queued

\* the user picks a grouping; one query runs at a time
UserSetGroupBy ==
  \E g \in {DefaultGroupBy, <<"Album", "None", "None">>} :
    /\ threads["pool"] = NotCalling
    /\ \A k \in 1..Len(inbox) : inbox[k].signal # "finished"
    /\ SetGroupBy(g)
    /\ UNCHANGED <<store, dirs, dirs_table_, call, mutex, posted, inbox, now>>

\* RunQuery's block under the mutex: the rows of the table as it is now
PoolRunQueryReads ==
  /\ threads["pool"].op = "RunQuery"
  /\ threads' = [threads EXCEPT !["pool"] = Read(RunQuery(store))]
  /\ UNCHANGED <<store, dirs, dirs_table_, call, mutex, posted, modelVars>>

\* RunQuery returns: finished is queued with the rows that were read
PoolRunQueryReturns ==
  /\ HasRead
  /\ inbox' = Append(inbox, Signal("finished", threads["pool"].result))
  /\ threads' = [threads EXCEPT !["pool"] = NotCalling]
  /\ UNCHANGED <<store, dirs, dirs_table_, call, mutex, posted, configVars,
                 treeVars, now>>

NextPopulation ==
  \/ ScannerAddOrUpdateSongs
  \/ ScannerDeleteSongs
  \/ SongsDiscoveredSlot
  \/ SongsDeletedSlot
  \/ UserSetGroupBy
  \/ PoolRunQueryReads
  \/ PoolRunQueryReturns
  \/ ResetAsyncQueryFinishedSlot
  \/ ReturnToEventLoop

SpecPopulation == InitPopulation /\ [][NextPopulation]_vars

----------------------------------------------------------------------------
(* The store-wide mutex: the backend thread, the user interface thread and  *)
(* a thread of the pool are each in a function of the backend or in none,   *)
(* a function running one statement at a time                               *)

\* the first statements of a function, in the order it has them
Body ==
  [op \in {"AddOrUpdateSongs", "DeleteAll", "GetSongById", "RunQuery"} |->
     <<"QMutexLocker", "Connect", "Exec">>]
  @@ [op \in {"GetArtistSongs", "GetAlbumSongs", "GetSongsByAlbum"} |->
        <<"Connect", "QMutexLocker", "Exec">>]

\* the statement the thread is at, "return" when the body is done
Statement(t) ==
  IF threads[t].op = "none" THEN "none"
  ELSE IF threads[t].done = Len(Body[threads[t].op]) THEN "return"
  ELSE Body[threads[t].op][threads[t].done + 1]

InitMutex ==
  /\ store = <<>> /\ dirs = {1} /\ dirs_table_ = TRUE /\ call = NoCall
  /\ NoCaller
  /\ posted = <<>>
  /\ InitModel(DefaultGroupBy, NoFilter, TRUE)

\* the statements of the functions are what the threads interleave; the
\* table and the index are left as they are
OtherVars == <<store, dirs, dirs_table_, call, posted, modelVars>>

CallFunction ==
  \E t \in Callers, op \in DOMAIN Body :
    /\ Statement(t) = "none"
    /\ threads' = [threads EXCEPT ![t] = [NotCalling EXCEPT !.op = op]]
    /\ UNCHANGED <<mutex, OtherVars>>

\* QMutexLocker l(db_->Mutex()): the thread waits while another holds it
QMutexLocker ==
  \E t \in Callers :
    /\ Statement(t) = "QMutexLocker"
    /\ mutex = NoThread
    /\ mutex' = t
    /\ threads' = [threads EXCEPT ![t].done = @ + 1]
    /\ UNCHANGED OtherVars

\* QSqlDatabase db(db_->Connect())
Connect ==
  \E t \in Callers :
    /\ Statement(t) = "Connect"
    /\ threads' = [threads EXCEPT ![t].done = @ + 1, ![t].connected = TRUE]
    /\ UNCHANGED <<mutex, OtherVars>>

\* the query of the function, which may fail: the function goes on to return
ExecQuery ==
  \E t \in Callers :
    /\ Statement(t) = "Exec"
    /\ threads' = [threads EXCEPT ![t].done = @ + 1]
    /\ UNCHANGED <<mutex, OtherVars>>

\* the function returns: the locker's destructor unlocks the mutex
ReturnFromFunction ==
  \E t \in Callers :
    /\ Statement(t) = "return"
    /\ threads' = [threads EXCEPT ![t] = NotCalling]
    /\ mutex' = (IF mutex = t THEN NoThread ELSE mutex)
    /\ UNCHANGED OtherVars

NextMutex ==
  \/ CallFunction
  \/ QMutexLocker
  \/ Connect
  \/ ExecQuery
  \/ ReturnFromFunction

SpecMutex == InitMutex /\ [][NextMutex]_vars

----------------------------------------------------------------------------
(* The grouping index's claims *)

\* the Track Records that are live, and the song of one
Live == {i \in DOMAIN store : ~store[i].unavailable}

Record(i) == InitFromQuery(store[i])

\* every delta emitted so far has been applied
Quiescent == inbox = <<>>

RECURSIVE Ancestors(_)
Ancestors(node) ==
  IF node = Root THEN {} ELSE {node} \cup Ancestors(items[node].parent)

\* C2: after every completed SongsDiscovered or SongsDeleted, every Container
\* in the tree has a Song leaf below it.
C2_NoContainerWithoutLeaf ==
  \A node \in DOMAIN items \ {Root} :
    \E id \in DOMAIN song_nodes_ : node \in Ancestors(song_nodes_[id].parent)

\* the Container a leaf is under at a level, and the group value of its song
\* at that level (compilations fold to one value at an artist level)
ContainerAt(id, i) == {node \in Ancestors(song_nodes_[id].parent) : node[1] = i}

GroupValue(type, song) ==
  IF IsArtistGroupBy(type) /\ is_compilation(song) THEN <<TRUE, VariousArtists>>
  ELSE <<FALSE, ContainerKey(type, song)>>

SameGroupValues(a, b, i) ==
  \A j \in 0..i : GroupValue(group_by_[j + 1], song_nodes_[a].metadata)
                  = GroupValue(group_by_[j + 1], song_nodes_[b].metadata)

\* C3: two records in the tree are under the same Container at a configured
\* level i exactly when their group values for the levels 0..i are equal.
C3_SameContainerIffSameGroupValues ==
  \A a \in DOMAIN song_nodes_, b \in DOMAIN song_nodes_ :
    \A i \in {j \in 0..2 : \A k \in 0..j : group_by_[k + 1] # "None"} :
      (ContainerAt(a, i) = ContainerAt(b, i)) <=> SameGroupValues(a, b, i)

----------------------------------------------------------------------------
(* The reconciler's claims *)

Reconciles == {"AddOrUpdateSongs", "UpdateSongsBySongID"}

\* the candidates of a call, in the order the call takes them
CandidatesOf(c) ==
  IF c.op = "UpdateSongsBySongID"
  THEN [k \in 1..Len(Keys(c.arg)) |-> c.arg[Keys(c.arg)[k]]]
  ELSE c.arg

\* the songs a call's signals carry
EmittedIds(c) ==
  UNION {{c.emitted[k].songs[n].id : n \in 1..Len(c.emitted[k].songs)} :
           k \in 1..Len(c.emitted)}

\* C4: a reconcile call made a second time with the same batch, right after
\* the first committed, emits neither SongsDeleted nor SongsDiscovered.
C4_RepeatedReconcileEmitsNothing ==
  (call.repeat /\ ~call.failed) => call.emitted = <<>>

\* C5: when an SQL statement of a reconcile call fails, the table is as it
\* was before the call and the call emits no signal.
C5_FailedStatementRollsBackSilently ==
  [][(call'.op \in Reconciles /\ call'.failed)
       => (store' = store /\ call'.emitted = <<>>)]_vars

\* the persisted record a candidate is compared with
MatchOf(op, tbl, song) ==
  IF op = "UpdateSongsBySongID" THEN
    (IF song.song_id \in DOMAIN ExecCollectionQueryMap(tbl)
     THEN ExecCollectionQueryMap(tbl)[song.song_id] ELSE InvalidSong)
  ELSE IF song.id # -1 THEN GetSongById(tbl, song.id)
  ELSE IF song.song_id # "" THEN GetSongBySongId(tbl, song.song_id)
  ELSE InvalidSong

Unchanged(op, tbl, song) ==
  is_valid(MatchOf(op, tbl, song)) /\ IsMetadataEqual(song, MatchOf(op, tbl, song))

\* C10: a call whose candidates all match a persisted record with equal
\* metadata executes no UPDATE and puts none of those records into its lists.
C10_EqualMetadataWritesNothing ==
  [][(/\ call'.op \in Reconciles
      /\ ~call'.failed
      /\ call'.arg # <<>>
      /\ \A k \in 1..Len(CandidatesOf(call')) :
            Unchanged(call'.op, store, CandidatesOf(call')[k]))
       => (/\ \A n \in 1..Len(call'.sql) : call'.sql[n][1] # "UPDATE"
           /\ \A k \in 1..Len(CandidatesOf(call')) :
                MatchOf(call'.op, store, CandidatesOf(call')[k]).id
                  \notin EmittedIds(call'))]_vars

\* what a precedence rule decides for a candidate: the write and its row
IdFirst(tbl, song) ==
  IF song.id # -1 THEN
    (IF song.id \in DOMAIN tbl THEN <<"UPDATE", "songs", song.id>>
     ELSE <<"SKIP", "songs", song.id>>)
  ELSE IF song.song_id # "" /\ is_valid(GetSongBySongId(tbl, song.song_id)) THEN
    <<"UPDATE", "songs", GetSongBySongId(tbl, song.song_id).id>>
  ELSE <<"INSERT", "songs", lastInsertId(tbl)>>

SongIdFirst(tbl, song) ==
  IF song.song_id # "" /\ is_valid(GetSongBySongId(tbl, song.song_id)) THEN
    <<"UPDATE", "songs", GetSongBySongId(tbl, song.song_id).id>>
  ELSE IF song.id # -1 THEN
    (IF song.id \in DOMAIN tbl THEN <<"UPDATE", "songs", song.id>>
     ELSE <<"SKIP", "songs", song.id>>)
  ELSE <<"INSERT", "songs", lastInsertId(tbl)>>

Decide(rule, tbl, song) ==
  IF dirs_table_ /\ song.directory_id \notin dirs THEN <<"SKIP", "songs", song.id>>
  ELSE IF rule = "id first" THEN IdFirst(tbl, song)
  ELSE SongIdFirst(tbl, song)

Apply(tbl, song, write) ==
  IF write[1] = "UPDATE" THEN UpdateRow(tbl, write[3], song)
  ELSE IF write[1] = "INSERT" THEN InsertRow(tbl, song)
  ELSE tbl

\* the writes of a whole batch under a rule, and the table they leave
RECURSIVE Replay(_, _, _, _)
Replay(rule, tbl, songs, writes) ==
  IF songs = <<>> THEN [store |-> tbl, writes |-> writes]
  ELSE LET w == Decide(rule, tbl, Head(songs))
       IN Replay(rule, Apply(tbl, Head(songs), w), Tail(songs),
                 IF w[1] = "SKIP" THEN writes ELSE Append(writes, w))

SongWrites(sql) ==
  SelectSeq(sql, LAMBDA q : q[2] = "songs" /\ q[1] \in {"UPDATE", "INSERT"})

FollowsRule(rule) ==
  (call'.op = "AddOrUpdateSongs" /\ ~call'.failed)
    => LET r == Replay(rule, store, call'.arg, <<>>)
       IN SongWrites(call'.sql) = r.writes /\ store' = r.store

\* C9 as stated: AddOrUpdateSongs matches a candidate by its song_id when a
\* record with that song_id exists, else by its valid id, else inserts it.
C9_SongIdBeforeId == [][FollowsRule("song_id first")]_vars

\* C9 as amended: AddOrUpdateSongs matches a candidate that carries a valid id
\* by that id (and skips it when no such row exists), else by its song_id
\* when a record with that song_id exists, else inserts it.
C9_IdBeforeSongId == [][FollowsRule("id first")]_vars

\* a candidate whose id and song_id name different rows was written by its id
C9_Witness ==
  /\ call.op = "AddOrUpdateSongs" /\ ~call.failed /\ Len(call.arg) = 1
  /\ call.arg[1].id = 1 /\ call.arg[1].song_id = "s1"
  /\ 2 \in DOMAIN store /\ store[2].song_id = "s1"
  /\ store[1].album # store[2].album
  /\ SongWrites(call.sql) = <<(<<"UPDATE", "songs", 1>>)>>

----------------------------------------------------------------------------
(* The classifier's claims *)

\* the available records with an album, and the (directory, album) group of one
Classified(tbl) == {i \in DOMAIN tbl : ~tbl[i].unavailable /\ tbl[i].album # ""}

GroupOf(tbl, i) ==
  {j \in Classified(tbl) : /\ Directory(tbl[j].url) = Directory(tbl[i].url)
                           /\ tbl[j].album = tbl[i].album}

EffectiveArtists(tbl, rows) == {tbl[j].effective_albumartist : j \in rows}

PassCompleted == call.op = "CompilationsNeedUpdating" /\ ~call.failed /\ ~call.returned

\* C6: after a successful CompilationsNeedUpdating pass every member of a
\* (directory, album) group with two or more distinct effective artists has
\* compilation_detected set, and every member of a group with exactly one
\* has it clear.
C6_GroupsClassifiedByArtistCount ==
  PassCompleted =>
    \A i \in Classified(store) :
      LET artists == EffectiveArtists(store, GroupOf(store, i))
      IN /\ Cardinality(artists) >= 2 => store[i].compilation_detected
         /\ Cardinality(artists) = 1 => ~store[i].compilation_detected

\* C7: a CompilationsNeedUpdating pass run right after another, with no write
\* in between, updates no row and emits no signal.
C7_SecondPassDoesNothing ==
  (PassCompleted /\ call.repeat) =>
    /\ \A n \in 1..Len(call.sql) : call.sql[n][1] # "UPDATE"
    /\ call.emitted = <<>>

\* C8: in every reachable table, every row's compilation_effective equals
\* (compilation OR compilation_detected OR compilation_on) AND NOT
\* compilation_off.
C8_CompilationEffectiveIsDerived ==
  \A i \in DOMAIN store :
    store[i].compilation_effective =
      ((store[i].compilation \/ store[i].compilation_detected
        \/ store[i].compilation_on) /\ ~store[i].compilation_off)

\* a pass has marked a record that ForceCompilation(off) had excluded, and a
\* record carrying the compilation tag was inserted
C8_Witness ==
  /\ PassCompleted
  /\ \E n \in 1..Len(call.sql) : call.sql[n][1] = "UPDATE"
  /\ \E i \in DOMAIN store :
       /\ store[i].compilation_detected /\ store[i].compilation_off
       /\ ~store[i].compilation_effective
  /\ \E i \in DOMAIN store :
       /\ store[i].compilation_detected /\ ~store[i].compilation_off
       /\ store[i].compilation_effective

----------------------------------------------------------------------------
(* The whole-library reconciliation's claims *)

\* the ROWIDs of the snapshots a call's signal of that name carries, in order
EmittedBy(c, name) ==
  Flatten([k \in 1..Len(c.emitted) |->
             IF c.emitted[k].signal = name
             THEN [n \in 1..Len(c.emitted[k].songs) |-> c.emitted[k].songs[n].id]
             ELSE <<>>])

RowsWithSongId(tbl, song_id) == {i \in DOMAIN tbl : tbl[i].song_id = song_id}

\* C11: a successful UpdateSongsBySongID(new_songs) deletes every persisted
\* record whose song_id is not a key of new_songs and lists it as removed,
\* deletes no record whose song_id is a key, and leaves exactly one row for
\* every key of new_songs and no other row.
C11_StoreBecomesTheKeySet ==
  [][(call'.op = "UpdateSongsBySongID" /\ ~call'.failed /\ ~call'.returned)
       => (/\ \A i \in DOMAIN store :
                store[i].song_id \notin DOMAIN call'.arg
                  => (/\ i \notin DOMAIN store'
                      /\ \E n \in 1..Len(EmittedBy(call', "SongsDeleted")) :
                           EmittedBy(call', "SongsDeleted")[n] = i)
           /\ \A i \in DOMAIN store :
                store[i].song_id \in DOMAIN call'.arg => i \in DOMAIN store'
           /\ {store'[i].song_id : i \in DOMAIN store'} = DOMAIN call'.arg
           /\ \A k \in DOMAIN call'.arg :
                Cardinality(RowsWithSongId(store', k)) = 1)]_vars

----------------------------------------------------------------------------
(* The directory sanity check's claims *)

\* a record of a Directory that is no longer in the directories table
Orphaned(song) == song.directory_id # -1 /\ song.directory_id \notin dirs

\* what a reconcile call wrote for the records it was to skip: a row of a
\* missing Directory is a row that was there before, untouched, and no such
\* record is in SongsDiscovered
SkipsOrphaned ==
  /\ \A i \in DOMAIN store' :
       Orphaned(store'[i]) => (i \in DOMAIN store /\ store[i] = store'[i])
  /\ \A k \in 1..Len(call'.emitted) :
       call'.emitted[k].signal = "SongsDiscovered"
         => \A n \in 1..Len(call'.emitted[k].songs) :
              ~Orphaned(call'.emitted[k].songs[n])

\* the batch of an AddOrUpdateSongs call is processed as the batch without
\* the records of a missing Directory is
ProcessesTheRest ==
  call'.op = "AddOrUpdateSongs" =>
    LET kept == SelectSeq(call'.arg, LAMBDA song : ~Orphaned(song))
        t == AddOrUpdateLoop(Begin(store), kept, 0)
    IN /\ ~call'.returned
       /\ store' = t.store
       /\ call'.emitted = EmitDelta(t)

\* C12: a reconcile call (AddOrUpdateSongs, UpdateSongsBySongID) on a backend
\* with a directories table writes no row and emits no snapshot for a record
\* whose Directory is missing, does not fail because of it, and processes
\* and commits the other records of the batch.
C12_MissingDirectorySkipsTheRecord ==
  [][(call'.op \in Reconciles /\ ~call'.failed /\ dirs_table_)
       => (SkipsOrphaned /\ ProcessesTheRest)]_vars

----------------------------------------------------------------------------
(* The classifier's delta and frame *)

\* the snapshots a call's signal of that name carries, in order
SnapshotsBy(c, name) ==
  Flatten([k \in 1..Len(c.emitted) |->
             IF c.emitted[k].signal = name THEN c.emitted[k].songs ELSE <<>>])

Count(seq, x) == Cardinality({n \in 1..Len(seq) : seq[n] = x})

\* a pass that ran to its end with no statement failing, as a step
Pass == call'.op = "CompilationsNeedUpdating" /\ ~call'.failed /\ ~call'.returned

\* the rows whose compilation_detected the step changes
Redetected ==
  {i \in DOMAIN store \cap DOMAIN store' :
     store'[i].compilation_detected # store[i].compilation_detected}

\* C13: the delta of a CompilationsNeedUpdating pass holds the old snapshot
\* (removed) and the new snapshot (added) of exactly the records whose
\* compilation_detected the pass changes, each once; a pass that changes no
\* record executes no UPDATE.
C13_DeltaIsTheChangedRecords ==
  [][Pass =>
       (/\ \A i \in Redetected :
             /\ Count(SnapshotsBy(call', "SongsDeleted"), InitFromQuery(store[i])) = 1
             /\ Count(SnapshotsBy(call', "SongsDiscovered"), InitFromQuery(store'[i])) = 1
        /\ \A n \in 1..Len(EmittedBy(call', "SongsDeleted")) :
             EmittedBy(call', "SongsDeleted")[n] \in Redetected
        /\ \A n \in 1..Len(EmittedBy(call', "SongsDiscovered")) :
             EmittedBy(call', "SongsDiscovered")[n] \in Redetected
        /\ (Redetected = {} =>
              \A n \in 1..Len(call'.sql) : call'.sql[n][1] # "UPDATE"))]_vars

\* the records a pass is to ignore: unavailable, or with no album
Ignored(tbl) == {i \in DOMAIN tbl : tbl[i].unavailable \/ tbl[i].album = ""}

\* C14: a CompilationsNeedUpdating pass leaves every unavailable record and
\* every record with an empty album as it was and has none of them in its
\* delta, also when the record shares its url with a member of a group.
C14_IgnoredRecordsAreLeftAlone ==
  [][Pass =>
       \A i \in Ignored(store) :
         /\ i \in DOMAIN store' /\ store'[i] = store[i]
         /\ \A n \in 1..Len(EmittedBy(call', "SongsDeleted")) :
              EmittedBy(call', "SongsDeleted")[n] # i
         /\ \A n \in 1..Len(EmittedBy(call', "SongsDiscovered")) :
              EmittedBy(call', "SongsDiscovered")[n] # i]_vars

\* C15: when an SQL statement of a CompilationsNeedUpdating pass fails, the
\* table is as it was before the pass and the pass emits no signal.
C15_FailedPassRollsBackSilently ==
  [][(call'.op = "CompilationsNeedUpdating" /\ call'.failed)
       => (store' = store /\ call'.emitted = <<>>)]_vars

\* two records of one directory and album
SameAlbum(a, b) ==
  a.album # "" /\ a.album = b.album /\ Directory(a.url) = Directory(b.url)

\* the rows the call just made inserted
InsertedBy(c) ==
  {c.sql[n][3] : n \in {m \in 1..Len(c.sql) : c.sql[m][1] = "INSERT"}}

\* the pass that follows an insert: a record just inserted and an available
\* record of its directory and album by another effective artist are both
\* detected after it
MarksThePair ==
  (call.op = "AddOrUpdateSongs" /\ ~call.failed /\ Pass) =>
    \A i \in InsertedBy(call), j \in DOMAIN store :
      (/\ ~store[i].unavailable /\ ~store[j].unavailable
       /\ SameAlbum(store[i], store[j])
       /\ store[i].effective_albumartist # store[j].effective_albumartist)
        => (store'[i].compilation_detected /\ store'[j].compilation_detected)

\* the pass that follows a delete: a detected record left alone in its group
\* by the delete of a detected record by another effective artist is not
\* detected after it, and its old and new snapshots are emitted
UnmarksTheRemaining ==
  (call.op = "DeleteSongs" /\ ~call.failed /\ Pass) =>
    \A n \in 1..Len(call.arg), i \in DOMAIN store :
      (/\ ~store[i].unavailable /\ ~call.arg[n].unavailable
       /\ SameAlbum(store[i], call.arg[n])
       /\ store[i].effective_albumartist # effective_albumartist(call.arg[n])
       /\ store[i].compilation_detected /\ call.arg[n].compilation_detected
       /\ \A j \in DOMAIN store \ {i} :
            ~(~store[j].unavailable /\ SameAlbum(store[i], store[j])))
        => (/\ ~store'[i].compilation_detected
            /\ Count(SnapshotsBy(call', "SongsDeleted"), InitFromQuery(store[i])) >= 1
            /\ Count(SnapshotsBy(call', "SongsDiscovered"), InitFromQuery(store'[i])) >= 1)

\* C16: when two available records of one directory and album with different
\* effective artists have been inserted, the next CompilationsNeedUpdating
\* sets compilation_detected on both; when one of them is then deleted, the
\* following CompilationsNeedUpdating clears it on the remaining record and
\* emits that record's old and new snapshots.
C16_MarkedThenUnmarked == [][MarksThePair /\ UnmarksTheRemaining]_vars

----------------------------------------------------------------------------
(* The dividers' and the Various artists node's claims *)

\* the Containers right under Root
TopLevel == {node \in DOMAIN items : items[node].parent = Root}

\* the divider key a top-level Container maps to: the first character of its
\* sort text, or the decade of its year
DividerOf(node) ==
  IF group_by_[1] = "Year"
  THEN SortTextForNumber((toInt(items[node].key) \div 10) * 10)
  ELSE DividerKey(group_by_[1], items[node])

\* C18: with dividers shown, after every completed SongsDiscovered and
\* SongsDeleted, whatever dimension the top level groups by, the Dividers
\* under Root are exactly the divider keys the top-level Containers map to.
C18_DividersAreTheContainersKeys ==
  show_dividers_ =>
    DOMAIN divider_nodes_ = {DividerOf(node) : node \in TopLevel} \ {""}

\* the levels the model groups by
Levels == {i \in 0..2 : \A k \in 0..i : group_by_[k + 1] # "None"}

\* C17: at every artist-like level (Artist, AlbumArtist), the Container a
\* compilation record is under is the Various artists node of that
\* Container's parent, not a Container keyed by the record's artist; the
\* deeper levels are below that node.
C17_CompilationsAreUnderVariousArtists ==
  \A id \in DOMAIN song_nodes_ :
    \A i \in Levels :
      (IsArtistGroupBy(group_by_[i + 1]) /\ is_compilation(song_nodes_[id].metadata))
        => \E node \in DOMAIN items :
             /\ ContainerAt(id, i) = {node}
             /\ items[items[node].parent].compilation_artist_node_ = node

----------------------------------------------------------------------------
(* A candidate that matches a persisted record by its song_id *)

\* the statements of that kind a call executed
Statements(c, kind) == {k \in 1..Len(c.sql) : c.sql[k][1] = kind}

\* the step is a reconcile call that no statement failed in, of a batch of
\* one candidate with no id and the song_id of a persisted row whose album
\* is another
MatchesBySongId ==
  /\ call'.op \in Reconciles /\ ~call'.failed
  /\ LET batch == CandidatesOf(call')
     IN /\ Len(batch) = 1
        /\ batch[1].id = -1 /\ batch[1].song_id # ""
        /\ \E i \in RowsWithSongId(store, batch[1].song_id) :
             store[i].album # batch[1].album

\* the delta is one snapshot removed, the row as it was, and one added, the
\* candidate with the row's id
OneRemovedOneAdded ==
  LET removed == SnapshotsBy(call', "SongsDeleted")
      added == SnapshotsBy(call', "SongsDiscovered")
  IN /\ Len(removed) = 1 /\ Len(added) = 1
     /\ removed[1].id \in DOMAIN store
     /\ removed[1] = InitFromQuery(store[removed[1].id])
     /\ added[1] = set_id(CandidatesOf(call')[1], removed[1].id)

DirectoryFound == dirs_table_ => CandidatesOf(call')[1].directory_id \in dirs

\* AddOrUpdateSongs updates the row in the songs table and writes nothing else
UpdatesTheSongsRowOnly ==
  /\ OneRemovedOneAdded
  /\ Cardinality(Statements(call', "UPDATE")) = 1
  /\ Statements(call', "INSERT") = {} /\ Statements(call', "DELETE") = {}

\* UpdateSongsBySongID updates the row in the songs table and in the full
\* text table, emits the pair for it once, and deletes rows of the other
\* song_ids only
UpdatesTheRowAndItsFts ==
  LET new_song == CandidatesOf(call')[1]
      id == CHOOSE i \in DOMAIN store : store[i].song_id = new_song.song_id
      removed == SnapshotsBy(call', "SongsDeleted")
      others == {i \in DOMAIN store : store[i].song_id # new_song.song_id}
  IN /\ SnapshotsBy(call', "SongsDiscovered") = <<set_id(new_song, id)>>
     /\ Count(removed, InitFromQuery(store[id])) = 1
     /\ {call'.sql[k] : k \in Statements(call', "UPDATE")}
          = {<<"UPDATE", "songs", id>>, <<"UPDATE", "fts", id>>}
     /\ Cardinality(Statements(call', "UPDATE")) = 2
     /\ Statements(call', "INSERT") = {}
     /\ {call'.sql[k][3] : k \in Statements(call', "DELETE")} \subseteq others

----------------------------------------------------------------------------
(* SongsDeleted for a record the index has no leaf of *)

\* the step is the SongsDeleted slot taking the signal at the head of the queue
SongsDeletedStep ==
  /\ inbox # <<>> /\ Head(inbox).signal = "SongsDeleted"
  /\ inbox' = Tail(inbox)

HasLeaf(song) == song.id \in DOMAIN song_nodes_

\* the records of the signal that have a leaf, and those that have none
WithLeaf == SelectSeq(Head(inbox).songs, HasLeaf)

WithoutLeaf == SelectSeq(Head(inbox).songs, LAMBDA song : ~HasLeaf(song))

\* C20: SongsDeleted for a record id with no Song leaf changes nothing for
\* that record: the tree, song_nodes_, the container maps and the divider
\* map are as SongsDeleted of the other records alone leaves them (unchanged
\* when no record of the call has a leaf), and the leaves of the other
\* records of the call are removed.
C20_MissingLeafIsANoOp ==
  [][(SongsDeletedStep /\ WithoutLeaf # <<>>) =>
       /\ <<items', container_nodes_', song_nodes_', divider_nodes_'>>
            = LET ix == SongsDeletedBody(Index, WithLeaf)
              IN <<ix.items, ix.container_nodes_, ix.song_nodes_, ix.divider_nodes_>>
       /\ WithLeaf = <<>> => UNCHANGED <<items, container_nodes_, song_nodes_, divider_nodes_>>
       /\ DOMAIN song_nodes_'
            = DOMAIN song_nodes_ \ {WithLeaf[k].id : k \in 1..Len(WithLeaf)}]_vars

\* the model has handled a SongsDeleted of two records, the first marked
\* unavailable before (its leaf was removed then) and the second not: the
\* second one's leaf is gone too
C20_Witness ==
  /\ call.op = "MarkSongsUnavailable" /\ ~call.failed /\ inbox = <<>>
  /\ call.emitted # <<>> /\ call.emitted[1].signal = "SongsDeleted"
  /\ query_options_ = NoFilter /\ group_by_[1] # "None"
  /\ LET songs == call.emitted[1].songs
     IN /\ Len(songs) = 2 /\ songs[1].id # songs[2].id
        /\ songs[1].unavailable /\ ~songs[2].unavailable
        /\ songs[1].id \notin DOMAIN song_nodes_
        /\ songs[2].id \notin DOMAIN song_nodes_

----------------------------------------------------------------------------
(* SongsDiscovered for a record the index has a leaf of *)

\* the step is the SongsDiscovered slot taking the signal at the head of the
\* queue
SongsDiscoveredStep ==
  /\ inbox # <<>> /\ Head(inbox).signal = "SongsDiscovered"
  /\ inbox' = Tail(inbox)

\* the leaves as (id, parent) pairs: one leaf per id
Leaves(nodes) == {<<id, nodes[id].parent>> : id \in DOMAIN nodes}

\* C21: SongsDiscovered for a record whose id has a Song leaf inserts
\* nothing for it: the leaf keeps its parent and its snapshot, and the tree,
\* the container maps and the divider map are as SongsDiscovered of the
\* other records alone leaves them (unchanged when every record of the call
\* has a leaf); the index holds one leaf for an id.
C21_KnownIdIsNotInsertedAgain ==
  [][(SongsDiscoveredStep /\ WithLeaf # <<>>) =>
       /\ \A k \in 1..Len(WithLeaf) :
            /\ WithLeaf[k].id \in DOMAIN song_nodes_'
            /\ song_nodes_'[WithLeaf[k].id] = song_nodes_[WithLeaf[k].id]
       /\ <<items', container_nodes_', song_nodes_', divider_nodes_'>>
            = LET ix == SongsDiscoveredLoop(Index, WithoutLeaf)
              IN <<ix.items, ix.container_nodes_, ix.song_nodes_, ix.divider_nodes_>>
       /\ WithoutLeaf = <<>> => UNCHANGED <<items, container_nodes_, song_nodes_, divider_nodes_>>
       /\ Cardinality(Leaves(song_nodes_')) = Cardinality(DOMAIN song_nodes_')]_vars

\* the model has handled a SongsDiscovered of two records, the first one
\* marked unavailable before (it had no leaf) and the second not (it had
\* one): both have a leaf, and the second one's snapshot is the one it had
C21_Witness ==
  /\ call.op = "MarkSongsUnavailable" /\ ~call.failed /\ inbox = <<>>
  /\ call.emitted # <<>> /\ call.emitted[1].signal = "SongsDiscovered"
  /\ query_options_ = NoFilter /\ group_by_[1] # "None"
  /\ LET songs == call.emitted[1].songs
     IN /\ Len(songs) = 2 /\ songs[1].id # songs[2].id
        /\ songs[1].unavailable /\ ~songs[2].unavailable
        /\ songs[1].id \in DOMAIN song_nodes_
        /\ songs[2].id \in DOMAIN song_nodes_
        /\ song_nodes_[songs[1].id].metadata = songs[1]

----------------------------------------------------------------------------
(* Reset *)

\* the step is a Reset: the slot of DatabaseReset, or set_show_dividers with
\* another value
ResetStep ==
  \/ inbox # <<>> /\ Head(inbox).signal = "DatabaseReset" /\ inbox' = Tail(inbox)
  \/ show_dividers_' # show_dividers_

\* the index as the step leaves it
IndexAfter ==
  [items |-> items', container_nodes_ |-> container_nodes_',
   song_nodes_ |-> song_nodes_', divider_nodes_ |-> divider_nodes_']

\* C22: after Reset, whatever the index was, the tree is a Root with no
\* children and no Various artists node, song_nodes_, the three container
\* maps and divider_nodes_ are empty, and a record of the table inserted next
\* is placed as in an index that was never filled.
C22_ResetLeavesAnEmptyIndex ==
  [][ResetStep =>
       /\ DOMAIN items' = {Root}
       /\ items'[Root].compilation_artist_node_ = NullItem
       /\ song_nodes_' = <<>>
       /\ \A level \in 1..3 : container_nodes_'[level] = <<>>
       /\ divider_nodes_' = <<>>
       /\ \A id \in DOMAIN store :
            SongDiscovered(IndexAfter, InitFromQuery(store[id]))
              = SongDiscovered(EmptyIndex, InitFromQuery(store[id]))]_vars

\* the leaves of the songs of the table are gone with the tree: the dividers
\* were switched when the index held them
C22_Witness ==
  /\ Idle /\ inbox = <<>>
  /\ query_options_ = NoFilter /\ group_by_[1] # "None"
  /\ store # <<>> /\ \A i \in DOMAIN store : ~store[i].unavailable
  /\ DOMAIN items = {Root} /\ song_nodes_ = <<>> /\ divider_nodes_ = <<>>

----------------------------------------------------------------------------
(* The store-wide mutex *)

\* C23: a thread that has opened the connection in a function of the
\* backend holds the mutex, from Connect until the function returns: no
\* function connects to or queries the store while not holding it.
C23_ConnectedUnderTheMutex ==
  \A t \in Callers : threads[t].connected => mutex = t

----------------------------------------------------------------------------
(* Removing a directory *)

\* the rows of a directory
RowsOfDirectory(tbl, dir) == {i \in DOMAIN tbl : tbl[i].directory_id = dir}

\* C24: when RemoveDirectory(dir) deletes the directory row, every record
\* of the directory has been deleted by statements before that one, their
\* removal is emitted (SongsDeleted) before DirectoryDeleted, and no
\* persisted record references the directory.
C24_RecordsGoBeforeTheirDirectory ==
  [][(call'.op = "RemoveDirectory" /\ call'.arg \in dirs /\ call'.arg \notin dirs') =>
       LET dir == call'.arg
           last == Len(call'.sql)
       IN /\ RowsOfDirectory(store', dir) = {}
          /\ call'.sql[last] = <<"DELETE", "dirs", dir>>
          /\ {call'.sql[k][3] : k \in {n \in 1..(last - 1) :
                                         call'.sql[n][1] = "DELETE" /\ call'.sql[n][2] = "songs"}}
               = RowsOfDirectory(store, dir)
          /\ Len(call'.emitted) = 2
          /\ call'.emitted[1] = Signal("SongsDeleted", SongsOfRows(store, RowsOfDirectory(store, dir)))
          /\ call'.emitted[2].signal = "DirectoryDeleted"]_vars

----------------------------------------------------------------------------
(* SongsSlightlyChanged *)

\* the step is the SongsSlightlyChanged slot taking the signal at the head of
\* the queue
SongsSlightlyChangedStep ==
  /\ inbox # <<>> /\ Head(inbox).signal = "SongsStatisticsChanged"
  /\ inbox' = Tail(inbox)

\* C25: SongsSlightlyChanged leaves the tree, the container maps, the
\* divider map and the set of ids with a leaf as they are; a leaf keeps its
\* parent; the snapshot of a leaf whose id is among the records is replaced
\* by the record, every other leaf keeps its snapshot, and a record whose id
\* has no leaf changes nothing.
C25_OnlyTheSnapshotIsReplaced ==
  [][SongsSlightlyChangedStep =>
       LET songs == Head(inbox).songs
       IN /\ UNCHANGED <<items, container_nodes_, divider_nodes_>>
          /\ DOMAIN song_nodes_' = DOMAIN song_nodes_
          /\ \A id \in DOMAIN song_nodes_ :
               /\ song_nodes_'[id].parent = song_nodes_[id].parent
               /\ IF \E k \in 1..Len(songs) : songs[k].id = id
                    THEN \E k \in 1..Len(songs) :
                           songs[k].id = id /\ song_nodes_'[id].metadata = songs[k]
                    ELSE song_nodes_'[id] = song_nodes_[id]
          /\ (\A k \in 1..Len(songs) : songs[k].id \notin DOMAIN song_nodes_)
               => UNCHANGED treeVars]_vars

\* the model has handled the SongsStatisticsChanged of a played song that
\* has a leaf: the leaf's snapshot is the played record
C25_Witness ==
  /\ call.op = "IncrementPlayCount" /\ ~call.failed /\ inbox = <<>>
  /\ call.emitted # <<>> /\ call.emitted[1].signal = "SongsStatisticsChanged"
  /\ threads["pool"] = NotCalling
  /\ LET song == call.emitted[1].songs[1]
     IN /\ song.id \in DOMAIN song_nodes_
        /\ song.playcount = 1
        /\ song_nodes_[song.id].metadata = song

----------------------------------------------------------------------------
(* The query that populates the index and the test that admits a record *)

\* the ids the index holds when it is populated from the store now:
\* RunQuery, then PostQuery into the index BeginReset leaves
Population ==
  DOMAIN PostQuery(BeginReset(Index), RunQuery(store)).song_nodes_

\* no query runs on the pool and no result waits for the model's thread
NoQueryUnderWay ==
  /\ threads["pool"] = NotCalling
  /\ \A k \in 1..Len(inbox) : inbox[k].signal # "finished"

\* C26: whatever the query options are, with no query under way, a record
\* of SongsDiscovered passes Matches exactly when populating the index from
\* the store includes it, and a record SongsDiscovered gives a leaf to is
\* one populating includes.
C26_MatchesAgreesWithThePopulation ==
  [][(SongsDiscoveredStep /\ NoQueryUnderWay) =>
       \A k \in 1..Len(Head(inbox).songs) :
         LET song == Head(inbox).songs[k]
         IN /\ Matches(query_options_, song, now) <=> song.id \in Population
            /\ (song.id \in DOMAIN song_nodes_' /\ song.id \notin DOMAIN song_nodes_)
                 => song.id \in Population]_vars

----------------------------------------------------------------------------
(* The divider key and the divider text of a top-level container *)

\* the key FinishItem computes for the container ItemFromSong makes of a song
CreationKey(type, song) ==
  DividerKey(type, [sort_text |-> ItemSortText(type, song),
                    metadata |-> ItemMetadata(type, song)])

\* the first character of a sort text folded: a digit to "0", the blank to
\* no key, a character with a decomposition to the letter the decomposition
\* begins with
Folded(c) ==
  IF IndexIn(Digits, c) # 0 THEN "0"
  ELSE IF c = " " THEN ""
  ELSE IF c \in {"É", "é", "½", "²"} THEN decomposition(c)
  ELSE c

\* C27: under a text-like grouping of the top level the divider key of a
\* container is the folded first character of its sort text, and the key
\* DividerKey gives for the container in the tree (the key SongsDeleted
\* computes when it prunes) is the key it was created with.
C27_DividerKeyOfTheFirstCharacter ==
  group_by_[1] \in TextLike =>
    \A id \in DOMAIN song_nodes_ :
      LET song == song_nodes_[id].metadata
          container == items[song_nodes_[id].parent]
      IN /\ CreationKey(group_by_[1], song)
              = Folded(CharAt(ItemSortText(group_by_[1], song), 1))
         /\ DividerKey(group_by_[1], container) = CreationKey(group_by_[1], song)

\* the tag a numeric grouping groups by
NumericValue(type, song) ==
  CASE type = "Year" -> song.year
    [] type = "Samplerate" -> song.samplerate
    [] type = "Bitdepth" -> song.bitdepth
    [] type = "Bitrate" -> song.bitrate

\* C28: the text of a divider is DividerDisplayText of the grouping and the
\* divider's key; it is "0-9" for the key "0" of a text-like grouping and
\* "Unknown" for the key of a container whose numeric tag is unset or zero.
C28_DividerDisplayText ==
  \A id \in DOMAIN song_nodes_ :
    LET song == song_nodes_[id].metadata
        type == group_by_[1]
        key == CreationKey(type, song)
    IN /\ key \in DOMAIN divider_nodes_ =>
            divider_nodes_[key].display_text = DividerDisplayText(type, key)
       /\ (type \in TextLike /\ key = "0") => DividerDisplayText(type, key) = "0-9"
       /\ (type \notin TextLike /\ NumericValue(type, song) <= 0) =>
            DividerDisplayText(type, key) = "Unknown"

----------------------------------------------------------------------------
(* The Various artists node of a parent *)

\* the children of a parent that CreateCompilationArtistNode made
CompilationArtistChildren(its, parent) ==
  {n \in DOMAIN its : n[3] /\ its[n].parent = parent}

\* a parent has at most one such child, and its slot holds that child or is
\* null when there is none
SlotHoldsTheChild(its) ==
  \A parent \in DOMAIN its :
    /\ Cardinality(CompilationArtistChildren(its, parent)) <= 1
    /\ IF its[parent].compilation_artist_node_ = NullItem
       THEN CompilationArtistChildren(its, parent) = {}
       ELSE CompilationArtistChildren(its, parent) = {its[parent].compilation_artist_node_}

\* C29: after every step a node has at most one Various artists child and
\* its compilation_artist_node_ is that child, null when it has none; a
\* SongsDeleted that takes the last child of a Various artists node removes
\* the node and clears the slot of its parent, and leaves in the maps of the
\* levels the key of every container that stays in the tree; a
\* SongsDiscovered finds the slot null or holding a node of the tree.
C29_OneVariousArtistsNode ==
  [][/\ SlotHoldsTheChild(items')
     /\ SongsDeletedStep =>
          /\ \A n \in DOMAIN items :
               (n[3] /\ ChildCount(Index, n) > 0 /\ ChildCount(IndexAfter, n) = 0) =>
                 /\ n \notin DOMAIN items'
                 /\ items[n].parent \in DOMAIN items' =>
                      items'[items[n].parent].compilation_artist_node_ = NullItem
          /\ \A level \in 1..3 : \A k \in DOMAIN container_nodes_[level] :
               container_nodes_[level][k] \in DOMAIN items' =>
                 /\ k \in DOMAIN container_nodes_'[level]
                 /\ container_nodes_'[level][k] = container_nodes_[level][k]
     /\ SongsDiscoveredStep =>
          \A parent \in DOMAIN items :
             items[parent].compilation_artist_node_ \in DOMAIN items \cup {NullItem}]_vars

\* the model has handled the SongsDeleted of a compilation track that was
\* the last one under the Various artists node of the root, another song
\* keeping its leaf: the node is gone and the root's slot is null
C29_Witness ==
  /\ call.op = "MarkSongsUnavailable" /\ ~call.failed /\ inbox = <<>>
  /\ call.emitted # <<>> /\ call.emitted[1].signal = "SongsDeleted"
  /\ query_options_ = NoFilter /\ IsArtistGroupBy(group_by_[1])
  /\ \E k \in 1..Len(call.emitted[1].songs) : is_compilation(call.emitted[1].songs[k])
  /\ \A k \in 1..Len(call.emitted[1].songs) :
       call.emitted[1].songs[k].id \notin DOMAIN song_nodes_
  /\ song_nodes_ # <<>>
  /\ items[Root].compilation_artist_node_ = NullItem
  /\ \A n \in DOMAIN items : ~n[3]

----------------------------------------------------------------------------
(* The artists of a group, compared letter for letter *)

\* the available records of a directory and album
MembersOf(tbl, key) ==
  {i \in DOMAIN tbl : /\ ~tbl[i].unavailable /\ tbl[i].album # ""
                      /\ Directory(tbl[i].url) \o tbl[i].album = key}

\* the group's effective artists are two or more spellings of one name
DifferInCaseOnly(tbl, key) ==
  /\ Cardinality({tbl[i].effective_albumartist : i \in MembersOf(tbl, key)}) >= 2
  /\ Cardinality({toLower(tbl[i].effective_albumartist) : i \in MembersOf(tbl, key)}) = 1

\* C30: a CompilationsNeedUpdating pass counts the effective artists of a
\* group as distinct when they are different strings: a group whose artists
\* differ in letter case only has every record detected as a compilation
\* after the pass, and a group with one spelling only has none.
C30_ArtistsAreComparedExactly ==
  [][Pass =>
       \A n \in 1..Len(CompilationKeyOrder) :
         LET key == CompilationKeyOrder[n]
         IN /\ DifferInCaseOnly(store, key) =>
                 \A i \in MembersOf(store, key) :
                   store'[i].compilation_detected /\ store'[i].compilation_effective
            /\ Cardinality({store[i].effective_albumartist : i \in MembersOf(store, key)}) = 1 =>
                 \A i \in MembersOf(store, key) : ~store'[i].compilation_detected]_vars

\* a pass has just marked a group of "A" and "a": its UPDATE ran and both
\* records are detected
C30_Witness ==
  /\ call.op = "CompilationsNeedUpdating" /\ ~call.failed /\ ~call.returned
  /\ \E n \in 1..Len(call.sql) : call.sql[n][1] = "UPDATE"
  /\ DifferInCaseOnly(store, "/m/X")
  /\ \A i \in MembersOf(store, "/m/X") : store[i].compilation_detected

----------------------------------------------------------------------------
(* The counters' claims *)

\* the methods of the three counters, as a call that committed queues them
CounterMethods ==
  <<"UpdateTotalSongCount", "UpdateTotalArtistCount", "UpdateTotalAlbumCount">>

\* the method waits on the backend's thread
Waits(m) == \E k \in 1..Len(posted) : posted[k] = m

\* the signal of the method with the count of the committed store
Recomputed(m) ==
  CASE m = "UpdateTotalSongCount" ->
         Total("TotalSongCountUpdated", TotalSongCount(store))
    [] m = "UpdateTotalArtistCount" ->
         Total("TotalArtistCountUpdated", TotalArtistCount(store))
    [] m = "UpdateTotalAlbumCount" ->
         Total("TotalAlbumCountUpdated", TotalAlbumCount(store))

\* the method has run and emitted its signal, once
Announced(m) == call.op = m /\ call.emitted = <<Recomputed(m)>>

\* the method has run, its SELECT failed and nothing was emitted
NotCounted(m) == call.op = m /\ call.failed /\ call.emitted = <<>>

\* a reconcile call queues the three methods when it committed and none
\* when a statement failed and it returned, the transaction rolled back
QueuedByTheCommit ==
  call.op \in {"AddOrUpdateSongs", "UpdateSongsBySongID"} =>
    call.queued = IF call.returned THEN <<>> ELSE CounterMethods

----------------------------------------------------------------------------
(* The classifier's groups *)

\* the group of the record stands alone: one effective artist, no member
\* detected, and no file of it holds a record of another group
OneArtistAlone(tbl, i) ==
  /\ Cardinality(EffectiveArtists(tbl, GroupOf(tbl, i))) = 1
  /\ \A j \in GroupOf(tbl, i) :
       /\ ~tbl[j].compilation_detected
       /\ \A k \in DOMAIN tbl : tbl[k].url = tbl[j].url => k \in GroupOf(tbl, i)

\* C32: the classifier groups by the pair (directory, album): a pass leaves
\* alone every record of a group with one effective artist and no member
\* detected, whatever the records of other directories or other albums
\* are, also when directory + album of another pair is the same string.
C32_GroupedByThePair ==
  [][Pass =>
       \A i \in Classified(store) :
         OneArtistAlone(store, i) =>
           (i \in DOMAIN store' /\ store'[i] = store[i])]_vars

----------------------------------------------------------------------------
(* The population's claims *)

\* no population is under way and every signal queued so far is applied
Populated == Quiescent /\ threads["pool"] = NotCalling

\* C33: no delta is lost or resurrected by the asynchronous population:
\* once the population has finished and every queued signal is applied,
\* the ids with a Song leaf are the live records that match the filter,
\* also when the backend committed a change after RunQuery read the table
\* and its delta was delivered before ResetAsyncQueryFinished.
C33_PopulationKeepsTheDeltas ==
  Populated =>
    DOMAIN song_nodes_ = {i \in Live : Matches(query_options_, Record(i), now)}

----------------------------------------------------------------------------
(* The index after an update *)

\* the container the grouping has for the song in the tree as it is
ContainerOf(song) == FindContainer(Index, song, 0, Root, "").container

\* C34: when the deltas of the calls that update records (AddOrUpdateSongs,
\* UpdateSongsBySongID, CompilationsNeedUpdating, ForceCompilation) are
\* applied, the one leaf of an id holds the record as it is in the table
\* and hangs below the containers of the record's present group values.
C34_OneLeafWithTheNewSnapshot ==
  Quiescent =>
    \A id \in DOMAIN song_nodes_ :
      /\ id \in Live
      /\ song_nodes_[id].metadata = Record(id)
      /\ song_nodes_[id].parent = ContainerOf(Record(id))

----------------------------------------------------------------------------
(* DeleteSongs' claims *)

\* the ids of the songs of a batch
IdsOf(songs) == {songs[k].id : k \in 1..Len(songs)}

----------------------------------------------------------------------------
(* The maps and the tree *)

\* the node is in the tree, and so is every node between it and the root
RECURSIVE Reachable(_, _)
Reachable(tree, node) ==
  \/ node = Root
  \/ /\ node \in DOMAIN tree
     /\ tree[node].parent # node
     /\ Reachable([n \in DOMAIN tree \ {node} |-> tree[n]], tree[node].parent)

\* every entry of song_nodes_ is the leaf of its key below a node of the
\* tree; every entry of container_nodes_[i] is a container of the tree, of
\* level i and with the entry's key; every entry of divider_nodes_ is the
\* divider of its key; every node of the tree that is not the root is a
\* container the maps or a Various artists slot lead to
MapsAgreeWithTheTree ==
  /\ Root \in DOMAIN items
  /\ \A id \in DOMAIN song_nodes_ :
       /\ song_nodes_[id].metadata.id = id
       /\ song_nodes_[id].container_level = -1
       /\ Reachable(items, song_nodes_[id].parent)
  /\ \A level \in 1..3 : \A key \in DOMAIN container_nodes_[level] :
       LET node == container_nodes_[level][key]
       IN /\ Reachable(items, node) /\ node # Root
          /\ items[node].container_level = level - 1
          /\ items[node].key = key
  /\ \A key \in DOMAIN divider_nodes_ : divider_nodes_[key].key = key
  /\ \A node \in DOMAIN items \ {Root, LoadingIndicator} :
       /\ Reachable(items, node)
       /\ \/ items[items[node].parent].compilation_artist_node_ = node
          \/ \E level \in 1..3 : \E key \in DOMAIN container_nodes_[level] :
               container_nodes_[level][key] = node

----------------------------------------------------------------------------
(* The statistics' claims *)

StatisticsCalls ==
  {"IncrementPlayCount", "UpdateLastPlayed", "UpdatePlayCount", "UpdateSongsRating"}

\* C37: every snapshot IncrementPlayCount, UpdateLastPlayed, UpdatePlayCount
\* and UpdateSongsRating emit for a row of the table is the row as it is
\* persisted after the update.
C37_NotifiedAfterTheUpdate ==
  [][call'.op \in StatisticsCalls =>
       \A k \in 1..Len(call'.emitted) :
         \A n \in 1..Len(call'.emitted[k].songs) :
           LET song == call'.emitted[k].songs[n]
           IN song.id \in DOMAIN store' => song = InitFromQuery(store'[song.id])]_vars

----------------------------------------------------------------------------
(* GetAllSongs' claims *)

\* C38: a call of GetAllSongs(id) emits GotSongs once, with the id: with
\* every song of the table when the query succeeded and with no song when
\* it failed.
C38_GotSongsOnce ==
  [][call'.op = "GetAllSongs" =>
       call'.emitted =
         <<GotSongs(IF call'.failed THEN <<>>
                    ELSE RowsInOrder(store, DOMAIN store), call'.arg)>>]_vars

----------------------------------------------------------------------------
(* MarkSongsUnavailable's claims *)

\* the call marks records that all have a leaf, and commits
Marked(unavailable) ==
  /\ call'.op = "MarkSongsUnavailable" /\ ~call'.returned
  /\ call'.arg[2] = unavailable
  /\ \A k \in 1..Len(call'.arg[1]) : HasLeaf(call'.arg[1][k])

\* the index after SongsDeleted(songs), the delta of the first call
Between(songs) == SongsDeletedBody(Index, songs)

\* and after SongsDiscovered(songs), the delta of the second call
RoundTrip(songs) == SongsDiscoveredLoop(Between(songs), songs)

\* C39: MarkSongsUnavailable(S, true) and then MarkSongsUnavailable(S, false)
\* for records S that have leaves, both deltas applied in order, give the
\* index the leaves and the Containers it had before, every row of S has
\* unavailable = 0, and between the two calls no record of S has a leaf.
C39_RoundTripRestoresTheIndex ==
  [][Marked(TRUE) =>
       LET S == call'.arg[1]
           rows == MarkUnavailableLoop(Begin(store'), S, FALSE, 0).store
       IN /\ Leaves(RoundTrip(S).song_nodes_) = Leaves(song_nodes_)
          /\ DOMAIN RoundTrip(S).items = DOMAIN items
          /\ \A k \in 1..Len(S) : ~rows[S[k].id].unavailable
          /\ \A k \in 1..Len(S) : S[k].id \notin DOMAIN Between(S).song_nodes_]_vars

----------------------------------------------------------------------------
(* AddOrUpdateSongs' claims: a candidate whose id has no row *)

\* the transaction of the call after the first n candidates, no statement
\* failing
After(songs, n) == AddOrUpdateLoop(Begin(store), SubSeq(songs, 1, n), 0)

\* candidate k carries an id and the table, as the transaction has it when
\* the loop comes to the candidate, has no row with that id
NoRowFor(songs, k) ==
  /\ songs[k].id # -1
  /\ songs[k].id \notin DOMAIN After(songs, k - 1).store
  /\ dirs_table_ => songs[k].directory_id \in dirs

\* the batch without candidate k
Without(songs, k) == SubSeq(songs, 1, k - 1) \o SubSeq(songs, k + 1, Len(songs))

\* a call of AddOrUpdateSongs none of whose statements failed
Reconciled == call'.op = "AddOrUpdateSongs" /\ ~call'.failed

\* C40: a candidate of AddOrUpdateSongs with id # -1 whose id has no row is
\* skipped: it inserts and updates no row and puts nothing into the added
\* and deleted lists, and the call goes on with the rest of the batch and
\* commits: table and signals are those of the batch without the candidate.
C40_CandidateWithoutRowIsSkipped ==
  [][Reconciled =>
       \A k \in 1..Len(call'.arg) :
         NoRowFor(call'.arg, k) =>
           LET before == After(call'.arg, k - 1)
               after == After(call'.arg, k)
               rest == After(Without(call'.arg, k), Len(call'.arg) - 1)
           IN /\ after.store = before.store
              /\ after.added = before.added
              /\ after.deleted = before.deleted
              /\ ~\E n \in 1..Len(after.sql) :
                    after.sql[n] \in {<<"INSERT", "songs", call'.arg[k].id>>,
                                      <<"UPDATE", "songs", call'.arg[k].id>>}
                    /\ n > Len(before.sql)
              /\ ~call'.returned
              /\ store' = rest.store
              /\ call'.emitted = EmitDelta(rest)]_vars

\* a batch whose first candidate carries id 1, which no row has, and whose
\* second is new: the call committed with one row inserted, the second's
C40_Witness ==
  /\ call.op = "AddOrUpdateSongs" /\ ~call.failed /\ ~call.returned
  /\ Len(call.arg) = 2
  /\ call.arg[1].id = 1 /\ call.arg[2].id = -1 /\ call.arg[1].album # call.arg[2].album
  /\ ~\E n \in 1..Len(call.sql) : call.sql[n][1] = "UPDATE"
  /\ \E n \in 1..Len(call.sql) : call.sql[n] = <<"INSERT", "songs", 1>>
  /\ DOMAIN store = {1} /\ store[1].album = call.arg[2].album
  /\ SnapshotsBy(call, "SongsDiscovered") = <<set_id(call.arg[2], 1)>>
  /\ SnapshotsBy(call, "SongsDeleted") = <<>>

====
